---- MODULE Spec2Model ----
(***************************************************************************)
(* dua-cpp: the work-stealing thread pool, the parallel scanner and the    *)
(* interactive controller (marks, search, delete, refresh), as state       *)
(* machines.                                                               *)
(*                                                                         *)
(* Threads: 0 is the thread that calls OptimizedScanner::scan (the main    *)
(* thread), 1..NumWorkers are the pool's workers; worker w owns queue w    *)
(* (queues[w-1] in the source).                                            *)
(***************************************************************************)
EXTENDS Integers, Sequences, FiniteSets, TLC

\* ------------------------------------------------------------------ bounds
\* Number of worker threads of the pool (num_threads).
NumWorkers == 2
\* Stand-in for QUEUE_SIZE_LIMIT (50000 in the source), scaled down so that
\* "every queue is at its cap" is reachable.
QueueSizeLimit == 2

Range(s) == {s[i] : i \in 1..Len(s)}

\* F(v) with v evaluated once, however often F refers to its argument.
Eval(v, F(_)) == CHOOSE y \in {F(x) : x \in {v}} : TRUE

Workers == 1..NumWorkers
MainThread == 0
Threads == {MainThread} \cup Workers
NoEntry == <<>>

\* QUEUE_SIZE_LIMIT / actual_threads (integer division), the per-queue cap.
QueueCap == QueueSizeLimit \div NumWorkers

\* -------------------------------------------------------------- filesystem
\* A small directory tree.  kind is "dir", "file" or "symlink"; items is the
\* order in which directory_iterator yields the children; dev / ino / nlink
\* are what stat() reports; bytes is file_size(), disk is st_blocks * 512.
\*
\*   A/            dev 1
\*     B/            E/  w (3 bytes)      y (hard link of A/x)
\*     C/            z (1 byte)
\*     D/            e (empty file, no blocks)
\*     x           2 bytes, 2 links (inode 10)
\*     s -> A/C    symlink
\*     M/          mount point of dev 2:  v (2 bytes)
\*     t -> A/C/z  symlink
Dir(items, ino) ==
    [kind |-> "dir", items |-> items, dev |-> 1, ino |-> ino, nlink |-> 2,
     bytes |-> 0, disk |-> 0, target |-> ""]
File(ino, nlink, bytes, disk) ==
    [kind |-> "file", items |-> <<>>, dev |-> 1, ino |-> ino, nlink |-> nlink,
     bytes |-> bytes, disk |-> disk, target |-> ""]
Symlink(target) ==
    [kind |-> "symlink", items |-> <<>>, dev |-> 1, ino |-> 0, nlink |-> 1,
     bytes |-> 0, disk |-> 0, target |-> target]

OnDevice(dev, f) == [f EXCEPT !.dev = dev]

FS ==
    [p \in {"A", "A/B", "A/C", "A/D", "A/B/E", "A/x", "A/B/y", "A/C/z",
            "A/B/E/w", "A/s", "A/M", "A/M/v", "A/t", "A/D/e"} |->
        CASE p = "A"       -> Dir(<<"A/B", "A/C", "A/D", "A/x", "A/s", "A/M",
                                    "A/t">>, 1)
          [] p = "A/M"     -> OnDevice(2, Dir(<<"A/M/v">>, 1))
          [] p = "A/M/v"   -> OnDevice(2, File(20, 1, 2, 4))
          [] p = "A/t"     -> Symlink("A/C/z")
          [] p = "A/B"     -> Dir(<<"A/B/E", "A/B/y">>, 2)
          [] p = "A/C"     -> Dir(<<"A/C/z">>, 3)
          [] p = "A/D"     -> Dir(<<"A/D/e">>, 4)
          [] p = "A/D/e"   -> File(13, 1, 0, 0)
          [] p = "A/B/E"   -> Dir(<<"A/B/E/w">>, 5)
          [] p = "A/x"     -> File(10, 2, 2, 4)
          [] p = "A/B/y"   -> File(10, 2, 2, 4)
          [] p = "A/C/z"   -> File(11, 1, 1, 4)
          [] p = "A/B/E/w" -> File(12, 1, 3, 4)
          [] p = "A/s"     -> Symlink("A/C")]

Paths == DOMAIN FS

VARIABLES
    config,          \* Config: paths, count_hard_links, stay_on_filesystem, apparent_size
    env,             \* the environment: directories whose enumeration hangs / is slow,
                     \* directories at whose scan the allocator has no memory left,
                     \* paths whose removal is refused, the keys the user presses
    live,            \* the paths that currently exist in the filesystem
    th,              \* per thread: pc, call stack of scan frames, task in hand, queue cursor
    queues,          \* WorkQueue::tasks of each queue
    qsize,           \* WorkQueue::size of each queue
    qlock,           \* the set of threads holding WorkQueue::mutex of each queue (empty: free)
    total_tasks,     \* WorkStealingThreadPool::total_tasks
    active_workers,  \* WorkStealingThreadPool::active_workers
    next_queue,      \* enqueue's static next_queue, kept modulo the queue count
    entries,         \* the Entry objects created so far, by identity
    roots,           \* scan's local vector `roots` (identities of the root entries)
    root_idx,        \* how many of config.paths scan() has taken
    inode_map,       \* OptimizedScanner::inode_map (its keys)
    visited_dirs,    \* OptimizedScanner::visited_dirs
    skipped_entries, \* OptimizedScanner::skipped_entries
    io_errors,       \* OptimizedScanner::io_errors
    hist,            \* history: scan tasks that returned, entries whose directory was enumerated
    ui               \* InteractiveUI and its MarkPane (NoUI while only a scan runs)

poolVars == <<queues, qsize, qlock, total_tasks, active_workers, next_queue>>
scanVars == <<entries, roots, root_idx, inode_map, visited_dirs, skipped_entries, io_errors>>
vars == <<config, env, live, th, poolVars, scanVars, hist, ui>>

\* ------------------------------------------------------------------ Entry
\* fs::exists follows symlinks: a dangling symlink does not "exist".
FsExists(p, lv) ==
    /\ p \in lv
    /\ FS[p].kind = "symlink" => FS[p].target \in lv

\* Entry::Entry(path): symlink_status and, for non-symlinks, stat().
NewEntry(p, lv) ==
    LET ex == FsExists(p, lv)
        sl == ex /\ FS[p].kind = "symlink"
        st == ex /\ ~sl
    IN  [path |-> p, size |-> 0, apparent_size |-> 0, is_directory |-> FALSE,
         is_symlink |-> sl, children |-> <<>>, marked |-> FALSE, entry_count |-> 0,
         device_id |-> IF st THEN FS[p].dev ELSE 0,
         inode |-> IF st THEN FS[p].ino ELSE 0,
         hard_link_count |-> IF st THEN FS[p].nlink ELSE 1]

\* config.apparent_size ? apparent_size : get_size_on_disk(path, apparent_size)
EffectiveSize(p, cf) == IF cf.apparent_size THEN FS[p].bytes ELSE FS[p].disk

\* The entries of directory p that directory_iterator yields.
Listing(p, lv) == SelectSeq(FS[p].items, LAMBDA c : c \in lv)

\* should_count_entry: TRUE unless dedup is on, the file has several links and
\* its (device, inode) key is already in inode_map.
ShouldCount(ent, imap, cf) ==
    ~(~cf.count_hard_links /\ ent.hard_link_count > 1
        /\ <<ent.device_id, ent.inode>> \in imap)

\* inode_map after should_count_entry(ent).
InodeMapAfter(ent, imap, cf) ==
    IF ~cf.count_hard_links /\ ent.hard_link_count > 1
    THEN imap \cup {<<ent.device_id, ent.inode>>}
    ELSE imap

\* ---------------------------------------------------------------- threads
Top(t) == th[t].stack[Len(th[t].stack)]
Pop(stk) == SubSeq(stk, 1, Len(stk) - 1)
Frame(e, items) == [e |-> e, items |-> items]
FrameEntries(stk) == {stk[i].e : i \in 1..Len(stk)}

\* Thread t moves to pc with its other fields as given.
SetTh(t, r) == th' = [th EXCEPT ![t] = r]
At(t, pc) == th[t].pc = pc

\* Thread t (record r) is in the batch loop of its top frame.  With an item
\* left the loop goes on; otherwise scan_directory_impl returns: into the batch
\* loop of the caller's frame (an inline run of enqueue's f()), into scan()'s
\* loop over the paths (main thread), or into worker_thread after task().
RECURSIVE Unwind(_, _)
Unwind(t, r) ==
    IF r.stack = <<>>
    THEN [r EXCEPT !.pc = IF t = MainThread THEN "m_root" ELSE "w_deactive"]
    ELSE IF r.stack[Len(r.stack)].items # <<>>
    THEN [r EXCEPT !.pc = "d_item"]
    ELSE Unwind(t, [r EXCEPT !.stack = Pop(@)])

\* Thread t goes on from record r; the scan tasks that returned are recorded.
Continue(t, r) ==
    LET u == Unwind(t, r) IN
    /\ SetTh(t, u)
    /\ hist' = [hist EXCEPT !.completed =
                    @ \cup (FrameEntries(r.stack) \ FrameEntries(u.stack))]

\* `return` from scan_directory_impl before its batch loop.
Return(t) ==
    LET u == Unwind(t, [th[t] EXCEPT !.stack = Pop(@)]) IN
    /\ SetTh(t, u)
    /\ hist' = [hist EXCEPT !.completed =
                    @ \cup (FrameEntries(th[t].stack) \ FrameEntries(u.stack))]

\* ------------------------------------------------- WorkStealingThreadPool
\* enqueue(f) called by thread t for the scan task of entry e, first
\* statement: queue_id = next_queue.fetch_add(1) % actual_threads, attempts = 0.
\* (`if (stop) return` never fires: stop is set by the destructor only.)
EnqueueCall(r, e) ==
    [r EXCEPT !.pc = "e_check", !.task = e, !.q = next_queue + 1, !.att = 0]

\* A faulty enqueue that gives up when every queue is full: f is destroyed
\* without having run.
EnqueueDrop(t) == Continue(t, [th[t] EXCEPT !.task = NoEntry])

\* enqueue, all queues full: f() runs in the caller.
EnqueueInline(t) ==
    /\ SetTh(t, [th[t] EXCEPT !.pc = "d_visit", !.task = NoEntry,
                              !.stack = Append(@, Frame(th[t].task, <<>>))])
    /\ UNCHANGED hist

\* enqueue, one turn of `while (attempts < actual_threads)`: the unlocked read
\* of queue->size against the cap; a queue at its cap sends the caller to the
\* next queue and, after the last attempt, to the inline call.
EnqCheck(t) ==
    /\ At(t, "e_check")
    /\ IF qsize[th[t].q] < QueueCap
       THEN SetTh(t, [th[t] EXCEPT !.pc = "e_lock"]) /\ UNCHANGED hist
       ELSE IF th[t].att + 1 >= NumWorkers
       THEN EnqueueInline(t)
       ELSE /\ SetTh(t, [th[t] EXCEPT !.q = (th[t].q % NumWorkers) + 1,
                                      !.att = @ + 1])
            /\ UNCHANGED hist
    /\ UNCHANGED <<ui, config, env, live, poolVars, scanVars>>

\* enqueue: lock_guard on the queue's mutex, then tasks.emplace_back.
EnqLock(t) ==
    /\ At(t, "e_lock")
    /\ qlock[th[t].q] = {}
    /\ qlock' = [qlock EXCEPT ![th[t].q] = {t}]
    /\ queues' = [queues EXCEPT ![th[t].q] = Append(@, th[t].task)]
    /\ SetTh(t, [th[t] EXCEPT !.pc = "e_size"])
    /\ UNCHANGED <<ui, config, env, live, qsize, total_tasks, active_workers,
                   next_queue, scanVars, hist>>

\* enqueue: queue->size++.
EnqSize(t) ==
    /\ At(t, "e_size")
    /\ qsize' = [qsize EXCEPT ![th[t].q] = @ + 1]
    /\ SetTh(t, [th[t] EXCEPT !.pc = "e_total"])
    /\ UNCHANGED <<ui, config, env, live, queues, qlock, total_tasks, active_workers,
                   next_queue, scanVars, hist>>

\* enqueue: total_tasks++, notify_one, return (the lock_guard releases the
\* mutex); the caller is scan_directory_batch, which goes on with the next
\* item.  No thread reads both total_tasks and a queue's mutex, so the two
\* writes are one step.
EnqTotal(t) ==
    /\ At(t, "e_total")
    /\ total_tasks' = total_tasks + 1
    /\ qlock' = [qlock EXCEPT ![th[t].q] = {}]
    /\ Continue(t, [th[t] EXCEPT !.task = NoEntry])
    /\ UNCHANGED <<ui, config, env, live, queues, qsize, active_workers,
                   next_queue, scanVars>>

\* try_steal: victim_id = (thief_id + i) % actual_threads.
Victim(w, i) == ((w - 1 + i) % NumWorkers) + 1

\* try_steal, `++i`: the next victim, or, after the last one, `return false`;
\* the worker then waits on work_available for at most 10 ms and starts its
\* loop over (the wait changes no state).
NextVictim(r) ==
    IF r.att + 1 >= NumWorkers
    THEN [r EXCEPT !.pc = "w_loop", !.att = 0]
    ELSE [r EXCEPT !.pc = "s_check", !.att = @ + 1]

\* worker_thread calls try_steal (its loop starts at i = 1).
StealCall(r) == NextVictim([r EXCEPT !.att = 0])

\* worker_thread: lock the own queue and pop its front if it has one; an empty
\* queue is unlocked again at once and the worker goes to steal.
WorkerTake(w) ==
    /\ At(w, "w_loop")
    /\ qlock[w] = {}
    /\ IF queues[w] # <<>>
       THEN /\ qlock' = [qlock EXCEPT ![w] = {w}]
            /\ queues' = [queues EXCEPT ![w] = Tail(@)]
            /\ SetTh(w, [th[w] EXCEPT !.pc = "w_size", !.task = Head(queues[w])])
       ELSE /\ UNCHANGED <<queues, qlock>>
            /\ SetTh(w, StealCall(th[w]))
    /\ UNCHANGED <<ui, config, env, live, qsize, total_tasks, active_workers,
                   next_queue, scanVars, hist>>

\* worker_thread: my_queue->size--.
WorkerSize(w) ==
    /\ At(w, "w_size")
    /\ qsize' = [qsize EXCEPT ![w] = @ - 1]
    /\ SetTh(w, [th[w] EXCEPT !.pc = "w_unlock"])
    /\ UNCHANGED <<ui, config, env, live, queues, qlock, total_tasks, active_workers,
                   next_queue, scanVars, hist>>

\* worker_thread: the own queue's lock is released with the task in hand.
WorkerUnlock(w) ==
    /\ At(w, "w_unlock")
    /\ qlock' = [qlock EXCEPT ![w] = {}]
    /\ SetTh(w, [th[w] EXCEPT !.pc = "w_active"])
    /\ UNCHANGED <<ui, config, env, live, queues, qsize, total_tasks, active_workers,
                   next_queue, scanVars, hist>>

\* try_steal, one turn of the loop: the unlocked read of the victim's size.
StealCheck(w) ==
    /\ At(w, "s_check")
    /\ IF qsize[Victim(w, th[w].att)] > 0
       THEN SetTh(w, [th[w] EXCEPT !.pc = "s_try"])
       ELSE SetTh(w, NextVictim(th[w]))
    /\ UNCHANGED <<ui, config, env, live, poolVars, scanVars, hist>>

StealTryCopy(w) ==
    /\ At(w, "s_try")
    /\ LET v == Victim(w, th[w].att) IN
       IF qlock[v] # {}
       THEN /\ SetTh(w, NextVictim(th[w]))
            /\ UNCHANGED <<queues, qlock>>
       ELSE /\ qlock' = [qlock EXCEPT ![v] = {w}]
            /\ UNCHANGED queues
            /\ IF queues[v] # <<>>
               THEN SetTh(w, [th[w] EXCEPT !.pc = "s_size",
                                           !.task = queues[v][Len(queues[v])]])
               ELSE SetTh(w, [th[w] EXCEPT !.pc = "s_unlock"])
    /\ UNCHANGED <<ui, config, env, live, qsize, total_tasks, active_workers,
                   next_queue, scanVars, hist>>

\* try_steal: try_to_lock on the victim's mutex; when owned and the deque is
\* not empty, take its back.
StealTry(w) ==
    /\ At(w, "s_try")
    /\ LET v == Victim(w, th[w].att) IN
       IF qlock[v] # {}
       THEN /\ SetTh(w, NextVictim(th[w]))
            /\ UNCHANGED <<queues, qlock>>
       ELSE /\ qlock' = [qlock EXCEPT ![v] = {w}]
            /\ IF queues[v] # <<>>
               THEN /\ queues' = [queues EXCEPT ![v] = Pop(@)]
                    /\ SetTh(w, [th[w] EXCEPT !.pc = "s_size",
                                              !.task = queues[v][Len(queues[v])]])
               ELSE /\ UNCHANGED queues
                    /\ SetTh(w, [th[w] EXCEPT !.pc = "s_unlock"])
    /\ UNCHANGED <<ui, config, env, live, qsize, total_tasks, active_workers,
                   next_queue, scanVars, hist>>

\* try_steal: victim_queue->size--.
StealSize(w) ==
    /\ At(w, "s_size")
    /\ qsize' = [qsize EXCEPT ![Victim(w, th[w].att)] = @ - 1]
    /\ SetTh(w, [th[w] EXCEPT !.pc = "s_unlock"])
    /\ UNCHANGED <<ui, config, env, live, queues, qlock, total_tasks, active_workers,
                   next_queue, scanVars, hist>>

\* try_steal: the victim's lock is released; return true with the task, or go
\* on with the next victim.
StealUnlock(w) ==
    /\ At(w, "s_unlock")
    /\ qlock' = [qlock EXCEPT ![Victim(w, th[w].att)] = {}]
    /\ IF th[w].task # NoEntry
       THEN SetTh(w, [th[w] EXCEPT !.pc = "w_active", !.att = 0])
       ELSE SetTh(w, NextVictim(th[w]))
    /\ UNCHANGED <<ui, config, env, live, queues, qsize, total_tasks, active_workers,
                   next_queue, scanVars, hist>>

\* worker_thread: active_workers++, then task() (scan_directory_impl(child)).
WorkerActive(w) ==
    /\ At(w, "w_active")
    /\ active_workers' = active_workers + 1
    /\ SetTh(w, [th[w] EXCEPT !.pc = "d_visit", !.task = NoEntry,
                              !.stack = <<Frame(th[w].task, <<>>)>>])
    /\ UNCHANGED <<ui, config, env, live, queues, qsize, qlock, total_tasks,
                   next_queue, scanVars, hist>>

\* worker_thread: active_workers-- after task() returned.
WorkerDeactive(w) ==
    /\ At(w, "w_deactive")
    /\ active_workers' = active_workers - 1
    /\ SetTh(w, [th[w] EXCEPT !.pc = "w_total"])
    /\ UNCHANGED <<ui, config, env, live, queues, qsize, qlock, total_tasks,
                   next_queue, scanVars, hist>>

\* worker_thread: total_tasks--, and around the loop.
WorkerTotal(w) ==
    /\ At(w, "w_total")
    /\ total_tasks' = total_tasks - 1
    /\ SetTh(w, [th[w] EXCEPT !.pc = "w_loop", !.task = NoEntry])
    /\ UNCHANGED <<ui, config, env, live, queues, qsize, qlock, active_workers,
                   next_queue, scanVars, hist>>

\* ------------------------------------------------------- OptimizedScanner
\* What a path resolves to when symlinks are followed (one level suffices here).
Resolve(p) == IF FS[p].kind = "symlink" THEN FS[p].target ELSE p

\* fs::is_directory(path), which follows symlinks.
IsDirectory(p, lv) == FsExists(p, lv) /\ FS[Resolve(p)].kind = "dir"

\* fs::canonical(path); should_ignore_directory falls back to the path itself
\* when canonical throws (the path does not exist).
Canonical(p, lv) == IF FsExists(p, lv) THEN Resolve(p) ELSE p

\* A faulty visited guard that never reports a directory as seen.
NeverVisited(cp) == FALSE

\* should_ignore_directory: visited_dirs.insert(canonical).second is false.
AlreadyVisited(cp) == cp \in visited_dirs

\* scan_directory_impl enters its batch loop with the enumerated items.
EnterBatches(t, e, items) ==
    LET r == [th[t] EXCEPT !.stack[Len(th[t].stack)].items = items]
        u == Unwind(t, r)
    IN  /\ SetTh(t, u)
        /\ hist' = [completed |-> hist.completed
                        \cup (FrameEntries(r.stack) \ FrameEntries(u.stack)),
                    enumerated |-> hist.enumerated \cup {e}]

\* An exception leaves a task.  worker_thread calls task() without a handler,
\* scan_directory_batch catches fs::filesystem_error only and main() nothing:
\* whichever thread ran the task, the exception ends in std::terminate and the
\* process is gone, every thread with it.
Terminate ==
    /\ th' = [u \in Threads |-> [th[u] EXCEPT !.pc = "aborted"]]
    /\ UNCHANGED hist

\* scan_directory_impl up to the batch loop.  Return at once for a symlink
\* entry or when should_ignore_directory says so (the visited_dirs insert
\* happens under visited_mutex, before the ignore_dirs lookup).  Then
\* try_iterate_directory: the enumeration runs in std::async and the caller
\* waits for it with future.wait_for(FS_TIMEOUT).  Before that,
\* entries.reserve(BATCH_SIZE * 2) allocates: without memory (env.nomem) it
\* throws std::bad_alloc out of the task.  When the enumeration is done
\* in time its entries are the batch; when it throws, io_errors++ and return;
\* on timeout skipped_entries++ and `return false`, which first destroys the
\* std::future (see FutureDtor).
Visit(t) ==
    /\ At(t, "d_visit")
    /\ LET e == Top(t).e
           p == entries[e].path
           cp == Canonical(p, live)
       IN  IF entries[e].is_symlink
           THEN Return(t) /\ UNCHANGED <<visited_dirs, skipped_entries, io_errors>>
           ELSE /\ visited_dirs' = visited_dirs \cup {cp}
                /\ IF AlreadyVisited(cp) \/ cp \in config.ignore_dirs
                   THEN Return(t) /\ UNCHANGED <<skipped_entries, io_errors>>
                   ELSE IF p \in env.nomem
                   THEN Terminate /\ UNCHANGED <<skipped_entries, io_errors>>
                   ELSE IF p \in env.stuck \cup env.slow
                   THEN /\ skipped_entries' = skipped_entries + 1
                        /\ SetTh(t, [th[t] EXCEPT !.pc = "d_dtor"])
                        /\ UNCHANGED <<io_errors, hist>>
                   ELSE IF ~IsDirectory(p, live)
                   THEN /\ io_errors' = io_errors + 1
                        /\ Return(t)
                        /\ UNCHANGED skipped_entries
                   ELSE /\ EnterBatches(t, e, Listing(p, live))
                        /\ UNCHANGED <<skipped_entries, io_errors>>
    /\ UNCHANGED <<ui, config, env, live, poolVars, entries, roots, root_idx, inode_map>>

\* try_iterate_directory after the timeout: `future` came from std::async, so
\* its destructor blocks until the enumeration thread has finished.  Only then
\* does try_iterate_directory return false (io_errors++, return).  For a
\* directory whose enumeration never finishes this step is never enabled.
FutureDtor(t) ==
    /\ At(t, "d_dtor")
    /\ entries[Top(t).e].path \in env.slow
    /\ io_errors' = io_errors + 1
    /\ Return(t)
    /\ UNCHANGED <<ui, config, env, live, poolVars, entries, roots, root_idx,
                   inode_map, visited_dirs, skipped_entries>>

\* parent->children.push_back(child), with the child's Entry stored.
AddChild(ents, parent, cid, child) ==
    [c \in DOMAIN ents \cup {cid} |->
        IF c = cid THEN child
        ELSE IF c = parent THEN [ents[c] EXCEPT !.children = Append(@, cid)]
        ELSE ents[c]]

\* scan_directory_batch, the regular-file branch: the child as it is appended.
FileChild(child, p, imap, cf) ==
    [child EXCEPT !.apparent_size = FS[p].bytes,
                  !.size = IF ShouldCount(child, imap, cf)
                           THEN EffectiveSize(p, cf) ELSE 0]

\* A faulty boundary check that lets every item pass.
NoBoundary(child, root_device, cf) == FALSE

\* scan_directory_batch's filesystem boundary check (not for symlinks): the
\* item is passed over.
OtherDevice(child, root_device, cf) ==
    ~child.is_symlink /\ cf.stay_on_filesystem /\ child.device_id # root_device

\* scan_directory_batch, one turn of its loop for the item at path p of the
\* directory entry `parent`: the entries and inode_map afterwards, and whether
\* the item is a directory whose scan task goes to pool.enqueue.  An item on
\* another device (stay_on_filesystem) or of another file type adds nothing; a
\* symlink is appended with size 0; a directory is appended; a regular file is
\* sized, deduplicated by should_count_entry, appended and added to the
\* parent's running totals.
ItemResult(ents, imap, parent, p, paths, lv, cf) ==
    LET cid == <<parent[1], p>>
        child == NewEntry(p, lv)
        root_device == ents[<<parent[1], paths[parent[1]]>>].device_id
        same == [ents |-> ents, imap |-> imap, dir |-> FALSE]
    IN  IF OtherDevice(child, root_device, cf)
        THEN same
        ELSE IF child.is_symlink
        THEN [same EXCEPT !.ents = AddChild(ents, parent, cid, child)]
        ELSE IF IsDirectory(p, lv)
        THEN [same EXCEPT !.ents = AddChild(ents, parent, cid,
                                       [child EXCEPT !.is_directory = TRUE]),
                          !.dir = TRUE]
        ELSE IF FsExists(p, lv) /\ FS[p].kind = "file"
        THEN LET fc == FileChild(child, p, imap, cf)
                 counted == ShouldCount(child, imap, cf)
                 added == AddChild(ents, parent, cid, fc)
             IN  [same EXCEPT
                    !.imap = InodeMapAfter(child, imap, cf),
                    !.ents = [added EXCEPT
                        ![parent].entry_count = IF counted THEN @ + 1 ELSE @,
                        ![parent].size = @ + fc.size]]
        ELSE same

\* scan_directory_batch in thread t, one turn of its loop (all batches of one
\* directory run back to back in scan_directory_impl).  A child directory's
\* scan task is handed to pool.enqueue, whose first statement takes the queue
\* cursor.
Item(t) ==
    /\ At(t, "d_item")
    /\ LET f == Top(t)
           p == Head(f.items)
           r == ItemResult(entries, inode_map, f.e, p, config.paths, live, config)
           rest == [th[t] EXCEPT !.stack[Len(th[t].stack)].items = Tail(@)]
       IN  /\ entries' = r.ents
           /\ inode_map' = r.imap
           /\ IF r.dir
              THEN /\ SetTh(t, EnqueueCall(rest, <<f.e[1], p>>))
                   /\ next_queue' = (next_queue + 1) % NumWorkers
                   /\ UNCHANGED hist
              ELSE /\ Continue(t, rest)
                   /\ UNCHANGED next_queue
    /\ UNCHANGED <<ui, config, env, live, queues, qsize, qlock, total_tasks,
                   active_workers, roots, root_idx, visited_dirs,
                   skipped_entries, io_errors>>

\* std::sort with the comparator a.size > b.size.  std::sort leaves the order
\* of entries of equal size open; here it is the order of arrival (an
\* insertion sort).
RECURSIVE InsertDesc(_, _, _)
InsertDesc(x, s, key) ==
    IF s = <<>> THEN <<x>>
    ELSE IF key[x] > key[Head(s)] THEN <<x>> \o s
    ELSE <<Head(s)>> \o InsertDesc(x, Tail(s), key)

RECURSIVE SortDesc(_, _)
SortDesc(s, key) ==
    IF s = <<>> THEN <<>>
    ELSE Eval(SortDesc(SubSeq(s, 1, Len(s) - 1), key),
              LAMBDA t : InsertDesc(s[Len(s)], t, key))

RECURSIVE SumOver(_, _)
SumOver(s, key) == IF s = <<>> THEN 0 ELSE key[Head(s)] + SumOver(Tail(s), key)

RECURSIVE CalculateSizes(_, _)
RECURSIVE CalculateAll(_, _)

\* The roll-up of a directory entry e once its children are done.
RolledUp(done, e, sizes) ==
    LET kids == done[e].children
        counts == [c \in DOMAIN done |-> done[c].entry_count]
    IN  [done EXCEPT ![e].size = SumOver(kids, sizes),
                     ![e].entry_count = SumOver(kids, counts),
                     ![e].children =
                         SortDesc(kids, [c \in DOMAIN done |-> done[c].size])]

\* A faulty roll-up that adds up the file children only.
CalculateSizesFilesOnly(ents, e) ==
    IF ~ents[e].is_directory
    THEN [ents EXCEPT ![e].entry_count = IF ents[e].size > 0 THEN 1 ELSE 0]
    ELSE Eval(CalculateAll(ents, ents[e].children),
              LAMBDA done : RolledUp(done, e,
                  [c \in DOMAIN done |->
                      IF done[c].is_directory THEN 0 ELSE done[c].size]))

\* calculate_sizes(entry): the roll-up, depth first; gives the entries after it.
CalculateSizes(ents, e) ==
    IF ~ents[e].is_directory
    THEN [ents EXCEPT ![e].entry_count = IF ents[e].size > 0 THEN 1 ELSE 0]
    ELSE Eval(CalculateAll(ents, ents[e].children),
              LAMBDA done : RolledUp(done, e,
                  [c \in DOMAIN done |-> done[c].size]))

CalculateAll(ents, s) ==
    IF s = <<>> THEN ents
    ELSE Eval(CalculateSizes(ents, Head(s)),
              LAMBDA next : CalculateAll(next, Tail(s)))

\* scan(), one turn of `for (const auto& path : paths)`: the root Entry, and
\* scan_directory_impl(root, root->device_id) in the calling thread for a
\* directory; after the last path, on to pool.wait_all().
MainRoot ==
    /\ At(MainThread, "m_root")
    /\ IF root_idx >= Len(config.paths)
       THEN /\ SetTh(MainThread, [th[MainThread] EXCEPT !.pc = "m_wait1"])
            /\ UNCHANGED <<entries, roots, root_idx>>
       ELSE LET p == config.paths[root_idx + 1]
                id == <<root_idx + 1, p>>
                root == [NewEntry(p, live) EXCEPT !.is_directory = IsDirectory(p, live)]
            IN  IF root.is_directory
                THEN /\ entries' = entries @@ (id :> root)
                     /\ roots' = Append(roots, id)
                     /\ root_idx' = root_idx + 1
                     /\ SetTh(MainThread, [th[MainThread] EXCEPT !.pc = "d_visit",
                                  !.stack = <<Frame(id, <<>>)>>])
                ELSE IF ~FsExists(p, live)
                THEN \* fs::file_size throws; nothing in scan() catches it
                     /\ SetTh(MainThread, [th[MainThread] EXCEPT !.pc = "m_threw"])
                     /\ UNCHANGED <<entries, roots, root_idx>>
                ELSE /\ entries' = entries @@ (id :>
                            [root EXCEPT !.apparent_size = FS[Resolve(p)].bytes,
                                         !.size = EffectiveSize(Resolve(p), config)])
                     /\ roots' = Append(roots, id)
                     /\ root_idx' = root_idx + 1
                     /\ UNCHANGED th
    /\ UNCHANGED <<ui, config, env, live, poolVars, inode_map, visited_dirs,
                   skipped_entries, io_errors, hist>>

\* A faulty wait_all that looks at active_workers only.
WaitActiveOnly ==
    /\ At(MainThread, "m_wait1")
    /\ SetTh(MainThread, [th[MainThread] EXCEPT !.pc = "m_wait2"])
    /\ UNCHANGED <<ui, config, env, live, poolVars, scanVars, hist>>

\* wait_all: the read of total_tasks in the loop condition; > 0 means sleep
\* 10 ms and look again.
WaitTotal ==
    /\ At(MainThread, "m_wait1")
    /\ IF total_tasks > 0
       THEN UNCHANGED th
       ELSE SetTh(MainThread, [th[MainThread] EXCEPT !.pc = "m_wait2"])
    /\ UNCHANGED <<ui, config, env, live, poolVars, scanVars, hist>>

\* wait_all: the read of active_workers, the second operand of ||.
WaitActive ==
    /\ At(MainThread, "m_wait2")
    /\ IF active_workers > 0
       THEN SetTh(MainThread, [th[MainThread] EXCEPT !.pc = "m_wait1"])
       ELSE SetTh(MainThread, [th[MainThread] EXCEPT !.pc = "m_calc"])
    /\ UNCHANGED <<ui, config, env, live, poolVars, scanVars, hist>>

\* scan(), after wait_all: calculate_sizes(root) for every root; return roots.
RollUp ==
    /\ At(MainThread, "m_calc")
    /\ entries' = CalculateAll(entries, roots)
    /\ SetTh(MainThread, [th[MainThread] EXCEPT !.pc = "done"])
    /\ UNCHANGED <<ui, config, env, live, poolVars, roots, root_idx, inode_map,
                   visited_dirs, skipped_entries, io_errors, hist>>

\* ------------------------------------------------------------ scan: inputs
Cfg(paths, hard, stay) ==
    [paths |-> paths, count_hard_links |-> hard, stay_on_filesystem |-> stay,
     apparent_size |-> FALSE, ignore_dirs |-> {}]
\* (fast: the keys of the session can arrive less than INPUT_BATCH_DELAY apart.)
NoHang ==
    [stuck |-> {}, slow |-> {}, nomem |-> {}, locked |-> {}, keys |-> {},
     fast |-> FALSE]

\* The runs of scan() that are explored: the command line (Config), the
\* environment (hanging directories) and the part of FS that exists.
ScanInputs ==
    { \* a directory tree that fills the queues
      <<Cfg(<<"A">>, FALSE, FALSE), NoHang, {"A", "A/B", "A/C", "A/D", "A/B/E"}>>,
      \* two links of one inode in two directories, dedup on and off
      <<Cfg(<<"A">>, FALSE, FALSE), NoHang, {"A", "A/B", "A/x", "A/B/y", "A/s", "A/C"}>>,
      <<Cfg(<<"A">>, TRUE, FALSE), NoHang, {"A", "A/B", "A/x", "A/B/y"}>>,
      \* a root inside another root
      <<Cfg(<<"A", "A/B">>, FALSE, FALSE), NoHang, {"A", "A/B", "A/B/y"}>>,
      \* a file root that is a link of a file under another root
      <<Cfg(<<"A/x", "A/B">>, FALSE, FALSE), NoHang, {"A", "A/x", "A/B", "A/B/y"}>>,
      \* a directory whose enumeration outlasts FS_TIMEOUT, or never ends
      <<Cfg(<<"A">>, FALSE, FALSE), [NoHang EXCEPT !.slow = {"A/C"}],
        {"A", "A/C", "A/C/z"}>>,
      <<Cfg(<<"A">>, FALSE, FALSE), [NoHang EXCEPT !.stuck = {"A/C"}],
        {"A", "A/C", "A/C/z"}>>,
      \* -x (stay_on_filesystem) with a mount point in the tree
      <<Cfg(<<"A">>, FALSE, TRUE), NoHang, {"A", "A/M", "A/M/v", "A/C", "A/C/z"}>>,
      \* symlinks as roots (to a file, to a directory) and as children
      <<Cfg(<<"A/t", "A/s", "A">>, FALSE, FALSE), NoHang,
        {"A", "A/C", "A/C/z", "A/s", "A/t"}>>,
      \* no memory left when the scan task of A/C starts
      <<Cfg(<<"A">>, FALSE, FALSE), [NoHang EXCEPT !.nomem = {"A/C"}],
        {"A", "A/C", "A/C/z", "A/D"}>>,
      \* an empty file beside a file with blocks
      <<Cfg(<<"A">>, FALSE, FALSE), NoHang, {"A", "A/D", "A/D/e", "A/x"}>> }

\* No interactive session.
NoUI == [pc |-> "none"]

ThreadInit(t) ==
    [pc |-> IF t = MainThread THEN "m_root" ELSE "w_loop",
     stack |-> <<>>, task |-> NoEntry, q |-> 1, att |-> 0]

PoolInit ==
    /\ queues = [q \in Workers |-> <<>>]
    /\ qsize = [q \in Workers |-> 0]
    /\ qlock = [q \in Workers |-> {}]
    /\ total_tasks = 0
    /\ active_workers = 0
    /\ next_queue = 0

ScannerInit ==
    /\ entries = << >>
    /\ roots = <<>>
    /\ root_idx = 0
    /\ inode_map = {}
    /\ visited_dirs = {}
    /\ skipped_entries = 0
    /\ io_errors = 0
    /\ hist = [completed |-> {}, enumerated |-> {}]

Init ==
    /\ \E in \in ScanInputs : config = in[1] /\ env = in[2] /\ live = in[3]
    /\ th = [t \in Threads |-> ThreadInit(t)]
    /\ PoolInit
    /\ ScannerInit
    /\ ui = NoUI

\* One step of one thread of a running scan().
Next ==
    \/ \E t \in Threads : EnqCheck(t)
    \/ \E t \in Threads : EnqLock(t)
    \/ \E t \in Threads : EnqSize(t)
    \/ \E t \in Threads : EnqTotal(t)
    \/ \E t \in Threads : Visit(t)
    \/ \E t \in Threads : FutureDtor(t)
    \/ \E t \in Threads : Item(t)
    \/ \E w \in Workers : WorkerTake(w)
    \/ \E w \in Workers : WorkerSize(w)
    \/ \E w \in Workers : WorkerUnlock(w)
    \/ \E w \in Workers : StealCheck(w)
    \/ \E w \in Workers : StealTry(w)
    \/ \E w \in Workers : StealSize(w)
    \/ \E w \in Workers : StealUnlock(w)
    \/ \E w \in Workers : WorkerActive(w)
    \/ \E w \in Workers : WorkerDeactive(w)
    \/ \E w \in Workers : WorkerTotal(w)
    \/ MainRoot
    \/ WaitTotal
    \/ WaitActive
    \/ RollUp

Spec == Init /\ [][Next]_vars

\* Every step thread t can take.
ThreadStep(t) ==
    \/ EnqCheck(t) \/ EnqLock(t) \/ EnqSize(t) \/ EnqTotal(t)
    \/ Visit(t) \/ FutureDtor(t) \/ Item(t)
    \/ /\ t \in Workers
       /\ \/ WorkerTake(t) \/ WorkerSize(t) \/ WorkerUnlock(t)
          \/ StealCheck(t) \/ StealTry(t) \/ StealSize(t) \/ StealUnlock(t)
          \/ WorkerActive(t) \/ WorkerDeactive(t) \/ WorkerTotal(t)
    \/ /\ t = MainThread
       /\ (MainRoot \/ WaitTotal \/ WaitActive \/ RollUp)

\* The scheduler runs every thread that can take a step: the main thread and
\* the workers are std::threads, their waits are bounded (work_available
\* wait_for 10 ms, wait_all's sleep_for 10 ms), and the mutexes are held for a
\* few statements only.
SpecFair == Init /\ [][Next]_vars /\ \A t \in Threads : WF_vars(ThreadStep(t))

\* ------------------------------------------------------ properties of scan
\* pool.wait_all() has returned to scan().
WaitAllReturned == th[MainThread].pc \in {"m_calc", "done"}
\* scan() has returned its forest.
ScanReturned == th[MainThread].pc = "done"
\* The entries whose scan task was handed to pool.enqueue.
Submitted == {e \in DOMAIN entries : entries[e].is_directory} \ Range(roots)
\* The (device, inode) key of an entry.
Key(e) == <<entries[e].device_id, entries[e].inode>>

\* C1: when wait_all has returned, no submitted task is still in a queue, in a
\* worker's hand or running: every task handed to enqueue, by scan or by
\* another task, has returned.
C1_WaitAllQuiescent ==
    WaitAllReturned =>
        /\ \A q \in Workers : queues[q] = <<>>
        /\ \A w \in Workers : th[w].task = NoEntry /\ th[w].stack = <<>>
        /\ Submitted \subseteq hist.completed

\* wait_all returned after a task that was enqueued by another task (A/B/E is
\* enqueued by the task of A/B) had run to its end.
C1_Witness ==
    /\ WaitAllReturned
    /\ <<1, "A/B/E">> \in hist.completed
    /\ <<1, "A/B/E">> \in hist.enumerated

\* C2: a caller of enqueue that finds the last queue at its cap too does not
\* wait: its next step runs the task itself; and when no enumeration hangs
\* forever and no task throws, scan's wait_all returns and the scan ends.
C2_InlineNoDeadlock ==
    /\ [][\A t \in Threads :
            (/\ At(t, "e_check")
             /\ th[t].att + 1 >= NumWorkers
             /\ qsize[th[t].q] >= QueueCap
             /\ th'[t] # th[t])
            => /\ th'[t].pc = "d_visit"
               /\ th'[t].stack = Append(th[t].stack, Frame(th[t].task, <<>>))]_vars
    /\ <>(ScanReturned \/ env.stuck # {} \/ env.nomem # {})

\* A thread runs a task inline (a frame on top of its caller's frame) while
\* every queue is at its cap.
C2_Witness ==
    /\ \A q \in Workers : qsize[q] >= QueueCap
    /\ \E t \in Threads : Len(th[t].stack) > 1 /\ At(t, "d_visit")

\* C3: in the forest scan returned, the size of every directory entry is the
\* sum of the sizes of its children.
C3_DirectorySizeIsSum ==
    ScanReturned =>
        \A e \in DOMAIN entries :
            entries[e].is_directory =>
                entries[e].size =
                    SumOver(entries[e].children,
                            [c \in DOMAIN entries |-> entries[c].size])

\* A returned forest with a nonempty subdirectory under a root that also has
\* a counted file of its own.
C3_Witness ==
    /\ ScanReturned
    /\ \E e \in DOMAIN entries, c \in DOMAIN entries, f \in DOMAIN entries :
        /\ entries[e].is_directory /\ entries[c].is_directory
        /\ ~entries[f].is_directory
        /\ c \in Range(entries[e].children)
        /\ f \in Range(entries[e].children)
        /\ entries[c].size > 0 /\ entries[f].size > 0

\* C4: with count_hard_links off, the forest scan returned has at most one
\* file entry of nonzero size for each (device, inode) key with several links.
C4_OneCountedLink ==
    (ScanReturned /\ ~config.count_hard_links) =>
        \A e1 \in DOMAIN entries, e2 \in DOMAIN entries :
            (/\ ~entries[e1].is_directory /\ ~entries[e2].is_directory
             /\ entries[e1].hard_link_count > 1
             /\ Key(e1) = Key(e2)
             /\ entries[e1].size > 0 /\ entries[e2].size > 0)
            => e1 = e2

\* C5: no two entries whose directory was enumerated have the same canonical
\* path, and an entry that was not enumerated has no children.
C5_EnumeratedOnce ==
    /\ \A e1 \in hist.enumerated, e2 \in hist.enumerated :
          Canonical(entries[e1].path, live) = Canonical(entries[e2].path, live)
              => e1 = e2
    /\ \A e \in DOMAIN entries : e \notin hist.enumerated => entries[e].children = <<>>

\* Two entries for one directory (a root inside another root): one was
\* enumerated, the scan task of the other returned without children.
C5_Witness ==
    \E e1 \in hist.enumerated, e2 \in hist.completed :
        /\ e1 # e2
        /\ entries[e1].path = entries[e2].path
        /\ e2 \notin hist.enumerated
        /\ entries[e1].children # <<>>

\* C6: scan returns although the enumeration of one directory never ends (in
\* the runs where no task throws).
C6_ReturnsDespiteHang == <>(ScanReturned \/ env.nomem # {})

\* ============================================================ InteractiveUI
\* ---------------------------------------- the scan behind refresh_all
\* OptimizedScanner::scan run to its end, in the schedule where the scan
\* tasks run one after the other in the order they were handed to enqueue.
\* st is [ents, imap, visited, work]: the entries, inode_map, visited_dirs and
\* the scan tasks not run yet.
ScanItem(st, parent, p, paths, lv, cf) ==
    Eval(ItemResult(st.ents, st.imap, parent, p, paths, lv, cf),
         LAMBDA r : [st EXCEPT !.ents = r.ents, !.imap = r.imap,
                        !.work = IF r.dir THEN Append(@, <<parent[1], p>>) ELSE @])

RECURSIVE ScanBatch(_, _, _, _, _, _)
ScanBatch(st, parent, items, paths, lv, cf) ==
    IF items = <<>> THEN st
    ELSE Eval(ScanItem(st, parent, Head(items), paths, lv, cf),
              LAMBDA next : ScanBatch(next, parent, Tail(items), paths, lv, cf))

\* scan_directory_impl(e) with no enumeration that hangs.
ScanTask(st, e, paths, lv, cf) ==
    LET p == st.ents[e].path
        cp == Canonical(p, lv)
    IN  IF st.ents[e].is_symlink THEN st
        ELSE Eval([st EXCEPT !.visited = @ \cup {cp}],
                  LAMBDA seen :
                     IF cp \in st.visited \/ cp \in cf.ignore_dirs THEN seen
                     ELSE IF ~IsDirectory(p, lv) THEN seen
                     ELSE ScanBatch(seen, e, Listing(p, lv), paths, lv, cf))

RECURSIVE ScanWork(_, _, _, _)
ScanWork(st, paths, lv, cf) ==
    IF st.work = <<>> THEN st
    ELSE Eval([st EXCEPT !.work = Tail(@)],
              LAMBDA rest :
                 Eval(ScanTask(rest, Head(st.work), paths, lv, cf),
                      LAMBDA next : ScanWork(next, paths, lv, cf)))

\* A root entry of scan(): is_directory from fs::is_directory(path).
RootEntry(p, lv) == [NewEntry(p, lv) EXCEPT !.is_directory = IsDirectory(p, lv)]

\* scan()'s loop over the paths from the i-th on.  threw: fs::file_size threw
\* for a root that is not a directory and does not exist.
RECURSIVE ScanRoots(_, _, _, _, _)
ScanRoots(st, i, paths, lv, cf) ==
    IF i > Len(paths) THEN st
    ELSE LET p == paths[i]
             id == <<i, p>>
         IN  IF IsDirectory(p, lv)
             THEN Eval([st EXCEPT !.ents = @ @@ (id :> RootEntry(p, lv)),
                                  !.roots = Append(@, id)],
                    LAMBDA in :
                       Eval(ScanTask(in, id, paths, lv, cf),
                         LAMBDA first :
                            Eval(ScanWork(first, paths, lv, cf),
                              LAMBDA next : ScanRoots(next, i + 1, paths, lv, cf))))
             ELSE IF ~FsExists(p, lv)
             THEN [st EXCEPT !.threw = TRUE]
             ELSE Eval([st EXCEPT
                          !.ents = @ @@ (id :>
                             [RootEntry(p, lv) EXCEPT
                                 !.apparent_size = FS[Resolve(p)].bytes,
                                 !.size = EffectiveSize(Resolve(p), cf)]),
                          !.roots = Append(@, id)],
                    LAMBDA next : ScanRoots(next, i + 1, paths, lv, cf))

\* scan(paths): the forest with its sizes rolled up, or threw.
ScanSeq(paths, lv, cf) ==
    Eval(ScanRoots([ents |-> << >>, imap |-> {}, visited |-> {},
                    work |-> <<>>, roots |-> <<>>, threw |-> FALSE],
                   1, paths, lv, cf),
         LAMBDA st :
            [threw |-> st.threw, roots |-> st.roots,
             ents |-> IF st.threw THEN st.ents
                      ELSE CalculateAll(st.ents, st.roots)])

\* ------------------------------------------------ file names and glob_match
\* The Entry that perform_glob_search makes for its matches.
SearchPath == "[Search Results]"

\* path.filename() as a string of characters.
FileName ==
    [p \in Paths \cup {"", SearchPath} |->
        CASE p = "A"       -> <<"A">>
          [] p = "A/B"     -> <<"B">>
          [] p = "A/C"     -> <<"C">>
          [] p = "A/D"     -> <<"D">>
          [] p = "A/B/E"   -> <<"E">>
          [] p = "A/x"     -> <<"x">>
          [] p = "A/B/y"   -> <<"y">>
          [] p = "A/C/z"   -> <<"z">>
          [] p = "A/B/E/w" -> <<"w">>
          [] p = "A/s"     -> <<"s">>
          [] p = "A/M"     -> <<"M">>
          [] p = "A/M/v"   -> <<"v">>
          [] p = "A/t"     -> <<"t">>
          [] p = "A/D/e"   -> <<"e">>
          [] p = ""        -> <<>>
          [] OTHER         -> <<"[", "S", "e", "a", "r", "c", "h", " ",
                                "R", "e", "s", "u", "l", "t", "s", "]">>]

\* std::regex_constants::icase on the letters that occur.
Lower(c) ==
    CASE c = "A" -> "a" [] c = "B" -> "b" [] c = "C" -> "c" [] c = "D" -> "d"
      [] c = "E" -> "e" [] c = "S" -> "s" [] c = "R" -> "r" [] c = "M" -> "m"
      [] OTHER -> c

\* The regex that glob_match builds, matched at the start of txt: `*` became
\* `.*`, `?` became `.`, every other character stands for itself.
RECURSIVE MatchHere(_, _)
MatchHere(pat, txt) ==
    IF pat = <<>> THEN TRUE
    ELSE IF Head(pat) = "*"
    THEN \E k \in 0..Len(txt) :
            MatchHere(Tail(pat), SubSeq(txt, k + 1, Len(txt)))
    ELSE /\ txt # <<>>
         /\ Head(pat) = "?" \/ Lower(Head(pat)) = Lower(Head(txt))
         /\ MatchHere(Tail(pat), Tail(txt))

\* glob_match(pattern, text): std::regex_search, a match anywhere in text.
GlobMatch(pat, txt) ==
    \E i \in 0..Len(txt) : MatchHere(pat, SubSeq(txt, i + 1, Len(txt)))

\* The paths in the order of std::string's operator<.
PathOrder ==
    <<"", "A", "A/B", "A/B/E", "A/B/E/w", "A/B/y", "A/C", "A/C/z", "A/D",
      "A/D/e", "A/M", "A/M/v", "A/s", "A/t", "A/x", SearchPath>>
PathRank(p) == CHOOSE i \in 1..Len(PathOrder) : PathOrder[i] = p

\* ------------------------------------------------------------- filesystem
\* A directory with everything below it (symlinks are not followed).
RECURSIVE SubTree(_)
SubTree(p) ==
    IF p \notin Paths THEN {}
    ELSE {p} \cup UNION {SubTree(FS[p].items[i]) : i \in 1..Len(FS[p].items)}

\* A faulty removal that follows a symlink and removes what it points to.
FsRemoveFollowing(p, lv, locked) ==
    IF p \notin lv THEN {[live |-> lv, threw |-> FALSE]}
    ELSE {[live |-> lv \ ({p} \cup SubTree(Resolve(p))), threw |-> FALSE]}

\* The outcomes of fs::remove(p): [live, threw].  A path that does not exist
\* is no error; a refused removal throws filesystem_error.  A symlink is
\* removed itself, never its target.
FsRemove(p, lv, locked) ==
    IF p \notin lv THEN {[live |-> lv, threw |-> FALSE]}
    ELSE IF p \in locked \/ (SubTree(p) \cap lv) # {p}
    THEN {[live |-> lv, threw |-> TRUE]}
    ELSE {[live |-> lv \ {p}, threw |-> FALSE]}

\* The outcomes of fs::remove_all(p).  With a refused removal below p it
\* throws after having removed some of the rest, contents before their
\* directory.
FsRemoveAll(p, lv, locked) ==
    LET T == SubTree(p) \cap lv
        blocked == {q \in T : SubTree(q) \cap lv \cap locked # {}}
    IN  IF p \notin lv THEN {[live |-> lv, threw |-> FALSE]}
        ELSE IF blocked = {} THEN {[live |-> lv \ T, threw |-> FALSE]}
        ELSE {[live |-> lv \ R, threw |-> TRUE] :
                R \in {X \in SUBSET (T \ blocked) :
                         \A q \in X : (SubTree(q) \cap lv) \subseteq X}}

\* ------------------------------------------------------ marks and the view
\* The virtual root the constructor and refresh_all make for several roots.
VirtualRoot == <<0, "">>
Virtual(ents, rts) ==
    [NewEntry("", {}) EXCEPT
        !.is_directory = TRUE,
        !.children = rts,
        !.size = SumOver(rts, [c \in DOMAIN ents |-> ents[c].size]),
        !.entry_count = SumOver(rts, [c \in DOMAIN ents |-> ents[c].entry_count])]
WithVirtualRoot(ents, rts) ==
    IF Len(rts) > 1 THEN ents @@ (VirtualRoot :> Virtual(ents, rts)) ELSE ents
TopDir(rts) == IF Len(rts) > 1 THEN VirtualRoot ELSE rts[1]

\* update_view: the children of dir under apply_sort (sort_mode SIZE_DESC).
View(ents, dir) ==
    SortDesc(ents[dir].children, [c \in DOMAIN ents |-> ents[c].size])

\* InteractiveUI::collect_marked_entries: a marked entry is taken and not
\* looked into; an unmarked directory is searched.
RECURSIVE CollectMarkedEntries(_, _)
RECURSIVE CollectMarkedOver(_, _)
CollectMarkedEntries(ents, e) ==
    IF ents[e].marked THEN <<e>>
    ELSE IF ents[e].is_directory /\ ~ents[e].is_symlink
    THEN CollectMarkedOver(ents, ents[e].children)
    ELSE <<>>
CollectMarkedOver(ents, s) ==
    IF s = <<>> THEN <<>>
    ELSE CollectMarkedEntries(ents, Head(s)) \o CollectMarkedOver(ents, Tail(s))

\* MarkPane::collect_marked_recursive: every marked entry, also below a
\* marked directory.
RECURSIVE CollectMarkedRecursive(_, _)
RECURSIVE CollectRecursiveOver(_, _)
CollectMarkedRecursive(ents, e) ==
    (IF ents[e].marked THEN <<e>> ELSE <<>>)
    \o (IF ents[e].is_directory /\ ~ents[e].is_symlink
        THEN CollectRecursiveOver(ents, ents[e].children)
        ELSE <<>>)
CollectRecursiveOver(ents, s) ==
    IF s = <<>> THEN <<>>
    ELSE CollectMarkedRecursive(ents, Head(s)) \o CollectRecursiveOver(ents, Tail(s))

\* An element of MarkPane::marked_items: the Entry it points to; stale when
\* that Entry belongs to a tree that refresh_all has replaced.
PaneItem(e) == [e |-> e, stale |-> FALSE]

\* MarkPane::update_marked_items(roots) on the UI state u: the list is built
\* anew from the roots and sorted by path; selected_index is pulled back into
\* the list.
UpdateMarkedItems(u, ents, rts) ==
    LET found == CollectRecursiveOver(ents, rts)
        sorted == SortDesc(found, [e \in Range(found) |-> 0 - PathRank(ents[e].path)])
        items == [i \in 1..Len(sorted) |-> PaneItem(sorted[i])]
    IN  [u EXCEPT !.marked_items = items,
                  !.mp_selected = IF @ >= Len(items) /\ Len(items) > 0
                                  THEN Len(items) - 1 ELSE @]

\* MarkPane::remove_all: the marked flag of every listed Entry is cleared (a
\* stale item's Entry is not in the tree any more) and the list is emptied.
UnmarkListed(ents, items) ==
    [e \in DOMAIN ents |->
        IF \E i \in 1..Len(items) : items[i].e = e /\ ~items[i].stale
        THEN [ents[e] EXCEPT !.marked = FALSE] ELSE ents[e]]

\* has_marked_items: some entry of current_view is marked.
HasMarkedItems(u, ents) == \E i \in 1..Len(u.current_view) : ents[u.current_view[i]].marked

\* The text that confirms a deletion.
YES == <<"Y", "E", "S">>

\* mvwgetnstr(dialog, 5, 4, confirmation, 9): at most 9 characters are read.
Getnstr(text) == SubSeq(text, 1, IF Len(text) < 9 THEN Len(text) ELSE 9)

\* A faulty check that takes any answer starting with y or Y.
ConfirmedLoosely(text) == text # <<>> /\ Lower(Head(text)) = "y"

\* std::string(confirmation) != "YES" is false.
Confirmed(text) == text = YES

\* No deletion under way.
NoDeletion == [marked |-> {}, before |-> {}]

\* InteractiveUI after its constructor (focus on the main pane).
UIStart(ents, rts) ==
    [pc |-> "loop",
     current_dir |-> TopDir(rts),
     navigation_stack |-> <<TopDir(rts)>>,
     current_view |-> View(ents, TopDir(rts)),
     selected_index |-> 0,
     pending_move |-> 0,
     \* last_input_time is less than INPUT_BATCH_DELAY ago (it starts as the
     \* epoch of the clock)
     recent_input |-> FALSE,
     glob_search_active |-> FALSE,
     glob_pattern |-> <<>>,
     focused_pane |-> "Main",
     mp_focused |-> FALSE,
     current_tab |-> "MARKED_FILES",
     quickview_active |-> FALSE,
     show_help |-> FALSE,
     stdout |-> <<>>,
     marked_items |-> <<>>,
     mp_selected |-> 0,
     confirmation |-> <<>>,
     marked_entries |-> <<>>,
     todo |-> <<>>,
     del |-> NoDeletion]

\* --------------------------------------------------------- bounds of the UI
\* SIZE_MAX, the initial last_selected_index and last_view_offset, and
\* current_view.size() - 1 of an empty view: above every index of a session.
SIZE_MAX == 1000000
\* Most movement keys coalesced into pending_move, in either direction.
MaxPending == 1
\* Longest glob pattern typed.
MaxPattern == 1
\* Most "[Search Results]" entries on the navigation stack.
MaxSearches == 1
\* The user presses one of the keys ks (env.keys: the keys of the session).
Typed(ks) == env.keys \cap ks # {}
\* The keys handle_glob_search appends to the pattern (ch >= 32 && ch < 127),
\* movement keys aside, which run() takes first.
Printable == {" ", "a", "d", "R", "r", "?", "i", "I", "1", "2", "/", "x", "q", "*", "b"}
\* The answers typed into the confirmation dialog (the last has 10 characters).
ConfirmTexts ==
    { YES, <<"y", "e", "s">>, <<>>, <<"Y", "E", "S", " ">>,
      <<"Y", "E", "S", "Y", "E", "S", "Y", "E", "S", "Y">> }

\* ------------------------------------------------------- run(): dispatch
\* run() is in its loop, at getch().
InLoop == ui.pc = "loop"
\* focused_pane == FocusedPane::Mark && mark_pane.is_focused(): the key goes to
\* handle_mark_pane_key.
MarkFocus == ui.focused_pane = "Mark" /\ ui.mp_focused
\* TabManager::switch_to_tab.
SwitchTab(u, n) ==
    [u EXCEPT !.current_tab = IF n = 1 THEN "QUICKVIEW"
                              ELSE IF n = 2 THEN "MARKED_FILES" ELSE @]
\* toggle_mark, toggle_all_marks: switch_tab(2) unless the pane is empty.
TabOfMarks(u) == IF u.marked_items # <<>> THEN SwitchTab(u, 2) ELSE u
\* handle_mark_pane_key's first test: the quick-view tab shows a preview.
QuickviewMode == ui.current_tab = "QUICKVIEW" /\ ui.quickview_active
\* The mark pane is on screen (run, check_mark_pane_visibility).
PaneVisible(u) == u.marked_items # <<>> \/ u.quickview_active
\* The key goes to the main pane: a movement key to navigate_up / _down, ...
MainKeys == InLoop /\ ~MarkFocus
\* ... any other key to handle_glob_search while the prompt is open ...
GlobKeys == MainKeys /\ ui.glob_search_active
\* ... and to handle_key otherwise.
NormalKeys == MainKeys /\ ~ui.glob_search_active

\* What an action of the UI leaves alone besides ui, entries, roots and live.
ScanIdle ==
    UNCHANGED <<config, env, th, poolVars, root_idx, inode_map, visited_dirs,
                skipped_entries, io_errors, hist>>
TreeSame == UNCHANGED <<entries, roots, live>>

\* apply_movement(delta) on the cursor of u.  current_view.size() - 1 is
\* SIZE_MAX for an empty view.
ApplyMovementTo(u, delta) ==
    LET last == IF u.current_view = <<>> THEN SIZE_MAX ELSE Len(u.current_view) - 1
        new_index == IF delta > 0
                     THEN (IF u.selected_index + delta < last
                           THEN u.selected_index + delta ELSE last)
                     ELSE (IF -delta > u.selected_index THEN 0
                           ELSE u.selected_index + delta)
    IN  IF delta = 0 THEN u ELSE [u EXCEPT !.selected_index = new_index]
\* run(): `if (pending_move != 0) { apply_movement(pending_move); pending_move = 0; }`
ApplyPending(u) ==
    [ApplyMovementTo(u, u.pending_move) EXCEPT !.pending_move = 0]

\* run(), a movement key less than INPUT_BATCH_DELAY after the last move: it
\* is added to pending_move, and the loop goes on.
BatchMove ==
    /\ MainKeys /\ ui.recent_input
    /\ \E d \in {-1, 1} :
          /\ Typed(IF d = 1 THEN {"KEY_DOWN", "j"} ELSE {"KEY_UP", "k"})
          /\ ui.pending_move + d \in (0 - MaxPending)..MaxPending
          /\ ui' = [ui EXCEPT !.pending_move = @ + d]
    /\ TreeSame /\ ScanIdle

\* run(), getch() returns ERR (no key waiting): the pending moves are applied.
IdleApply ==
    /\ InLoop
    /\ ui.pending_move # 0
    /\ ui' = ApplyPending(ui)
    /\ TreeSame /\ ScanIdle

\* run(), KEY_DOWN or j: the pending moves, then navigate_down.
NavigateDown ==
    /\ MainKeys
    /\ Typed({"KEY_DOWN", "j"})
    /\ ui' = [ApplyPending(ui) EXCEPT
                  !.selected_index = IF @ + 1 < Len(ui.current_view) THEN @ + 1 ELSE @,
                  !.recent_input = env.fast]
    /\ TreeSame /\ ScanIdle

\* run(), KEY_UP or k: the pending moves, then navigate_up.
NavigateUp ==
    /\ MainKeys
    /\ Typed({"KEY_UP", "k"})
    /\ ui' = [ApplyPending(ui) EXCEPT
                  !.selected_index = IF @ > 0 THEN @ - 1 ELSE @,
                  !.recent_input = env.fast]
    /\ TreeSame /\ ScanIdle

\* The entry under the cursor (selected_index < current_view.size()).
HasSelected == ui.selected_index < Len(ui.current_view)
Selected == ui.current_view[ui.selected_index + 1]

\* enter_directory (KEY_RIGHT, Enter, l, o).
EnterDirectory ==
    /\ NormalKeys
    /\ Typed({"KEY_RIGHT", "KEY_ENTER", "\n", "l", "o"})
    /\ IF /\ HasSelected
          /\ entries[Selected].is_directory
          /\ ~entries[Selected].is_symlink
          /\ entries[Selected].children # <<>>
       THEN ui' = [ui EXCEPT !.current_dir = Selected,
                             !.navigation_stack = Append(@, Selected),
                             !.current_view = View(entries, Selected),
                             !.selected_index = 0]
       ELSE UNCHANGED ui
    /\ TreeSame /\ ScanIdle

\* A "[Search Results]" entry, named by its place among those on the stack.
SearchId(k) == <<0 - k, SearchPath>>
IsSearch(e) == e[2] = SearchPath
Searches(stk) == Cardinality({i \in 1..Len(stk) : IsSearch(stk[i])})

\* exit_directory (KEY_LEFT, h, Backspace, u).  A "[Search Results]" entry
\* that leaves the stack is destroyed with its last shared_ptr: when it is
\* nowhere else on the stack and no child of another entry.
ExitDirectory ==
    /\ NormalKeys
    /\ Typed({"KEY_LEFT", "h", "KEY_BACKSPACE", "u"})
    /\ IF Len(ui.navigation_stack) > 1
       THEN LET stk == Pop(ui.navigation_stack)
                gone == ui.navigation_stack[Len(ui.navigation_stack)]
                held == \/ gone \in Range(stk)
                        \/ \E e \in DOMAIN entries \ {gone} :
                              gone \in Range(entries[e].children)
            IN  /\ ui' = [ui EXCEPT !.navigation_stack = stk,
                                    !.current_dir = stk[Len(stk)],
                                    !.current_view = View(entries, stk[Len(stk)]),
                                    !.selected_index = 0]
                /\ entries' = IF IsSearch(gone) /\ ~held
                              THEN [e \in DOMAIN entries \ {gone} |-> entries[e]]
                              ELSE entries
       ELSE UNCHANGED <<ui, entries>>
    /\ UNCHANGED <<roots, live>> /\ ScanIdle

\* toggle_mark (space), with its update_marked_items(roots).
ToggleMark ==
    /\ NormalKeys
    /\ Typed({" "})
    /\ IF HasSelected
       THEN LET ents == [entries EXCEPT ![Selected].marked = ~@] IN
            /\ entries' = ents
            /\ ui' = TabOfMarks(UpdateMarkedItems(ui, ents, roots))
       ELSE UNCHANGED <<ui, entries>>
    /\ UNCHANGED <<roots, live>> /\ ScanIdle

\* toggle_all_marks (a, A): every entry of the view gets !has_marked_items().
ToggleAllMarks ==
    /\ NormalKeys
    /\ Typed({"a", "A"})
    /\ LET any == HasMarkedItems(ui, entries)
           ents == [e \in DOMAIN entries |->
                      IF e \in Range(ui.current_view)
                      THEN [entries[e] EXCEPT !.marked = ~any] ELSE entries[e]]
       IN  /\ entries' = ents
           /\ ui' = TabOfMarks(UpdateMarkedItems(ui, ents, roots))
    /\ UNCHANGED <<roots, live>> /\ ScanIdle

\* handle_key('d').  With a marked entry in the view: delete_marked_entries
\* up to its dialog, where mvwgetnstr blocks; marked_entries is what
\* collect_marked_entries(current_dir) found.  Without one: mark the entry
\* under the cursor and move down.
KeyD ==
    /\ NormalKeys
    /\ Typed({"d"})
    /\ IF HasMarkedItems(ui, entries)
       THEN LET found == CollectMarkedEntries(entries, ui.current_dir) IN
            /\ ui' = IF found = <<>> THEN ui
                     ELSE [ui EXCEPT !.pc = "dialog", !.marked_entries = found]
            /\ UNCHANGED entries
       ELSE IF HasSelected
       THEN LET ents == [entries EXCEPT ![Selected].marked = TRUE]
                u == SwitchTab(UpdateMarkedItems(ui, ents, roots), 2)
            IN  /\ entries' = ents
                /\ ui' = [u EXCEPT !.selected_index =
                              IF @ + 1 < Len(ui.current_view) THEN @ + 1 ELSE @]
       ELSE UNCHANGED <<ui, entries>>
    /\ UNCHANGED <<roots, live>> /\ ScanIdle

\* delete_marked_entries from the return of mvwgetnstr to the loop's start:
\* anything but YES returns to handle_key with nothing done.  (del records the
\* marks and the filesystem at this moment, confirmation the answer given.)
ConfirmInput ==
    /\ ui.pc = "dialog"
    /\ \E text \in ConfirmTexts :
          IF Confirmed(Getnstr(text))
          THEN ui' = [ui EXCEPT
                        !.pc = "deleting",
                        !.confirmation = Getnstr(text),
                        !.todo = ui.marked_entries,
                        !.del = [marked |-> {e \in DOMAIN entries : entries[e].marked},
                                 before |-> live]]
          ELSE ui' = [ui EXCEPT !.pc = "loop", !.marked_entries = <<>>,
                                !.confirmation = Getnstr(text)]
    /\ TreeSame /\ ScanIdle

\* delete_marked_entries, one turn of `for (auto& entry : marked_entries)`:
\* remove_all for a directory that is no symlink, remove otherwise; the mark
\* is cleared unless the removal threw, and the loop goes on either way.
DeleteOne ==
    /\ ui.pc = "deleting"
    /\ ui.todo # <<>>
    /\ LET e == Head(ui.todo)
           ent == entries[e]
           outcomes == IF ent.is_directory /\ ~ent.is_symlink
                       THEN FsRemoveAll(ent.path, live, env.locked)
                       ELSE FsRemove(ent.path, live, env.locked)
       IN  \E o \in outcomes :
              /\ live' = o.live
              /\ entries' = IF o.threw THEN entries
                            ELSE [entries EXCEPT ![e].marked = FALSE]
    /\ ui' = [ui EXCEPT !.todo = Tail(@)]
    /\ UNCHANGED roots /\ ScanIdle

\* The paths refresh_all hands to scan.
RefreshPaths == IF Len(roots) > 1 THEN config.paths ELSE <<entries[roots[1]].path>>

\* refresh_all on the UI state u: a new scanner scans the roots again and the
\* tree is replaced; what the mark pane still lists belongs to the old tree.
\* When scan throws (a root is gone) nothing catches the exception: not
\* refresh_all, not handle_key, not run(), not main(); the process ends in
\* std::terminate.  ents is the tree at the call.
RefreshAll(u, ents0) ==
    \E sc \in {ScanSeq(RefreshPaths, live, config)} :
    \E ents \in {WithVirtualRoot(sc.ents, sc.roots)} :
        IF sc.threw
        THEN /\ ui' = [u EXCEPT !.pc = "terminated"]
             /\ entries' = ents0
             /\ UNCHANGED roots
        ELSE /\ entries' = ents
             /\ roots' = sc.roots
             /\ ui' = [u EXCEPT
                    !.pc = "loop",
                    !.current_dir = TopDir(sc.roots),
                    !.navigation_stack = <<TopDir(sc.roots)>>,
                    !.current_view = View(ents, TopDir(sc.roots)),
                    !.selected_index = 0,
                    !.marked_items = [i \in 1..Len(u.marked_items) |->
                                         [u.marked_items[i] EXCEPT !.stale = TRUE]]]

\* delete_marked_entries after its loop: mark_pane.remove_all(), refresh_all().
\* The marks that remove_all clears are in the tree that refresh_all replaces.
FinishDelete ==
    /\ ui.pc = "deleting"
    /\ ui.todo = <<>>
    /\ RefreshAll([ui EXCEPT !.marked_items = <<>>, !.mp_selected = 0,
                             !.marked_entries = <<>>, !.confirmation = <<>>,
                             !.del = NoDeletion],
                  UnmarkListed(entries, ui.marked_items))
    /\ UNCHANGED live /\ ScanIdle

\* handle_key('R'): refresh_all.
KeyRefreshAll ==
    /\ NormalKeys
    /\ Typed({"R"})
    /\ RefreshAll(ui, entries)
    /\ UNCHANGED live /\ ScanIdle

\* The entries below e in the tree (e itself not among them).
RECURSIVE Below(_, _)
Below(ents, e) ==
    UNION {{ents[e].children[i]} \cup Below(ents, ents[e].children[i]) :
              i \in 1..Len(ents[e].children)}

\* The forest scan({p}) returned, as the subtree of the entry sel: its root is
\* new_entries[0], whose first component becomes that of sel.
UnderSelected(ents, sel) ==
    [e \in {<<sel[1], x[2]>> : x \in DOMAIN ents} |->
        [ents[<<1, e[2]>>] EXCEPT
            !.children = [i \in 1..Len(@) |-> <<sel[1], @[i][2]>>]]]

\* handle_key('r'): refresh_selected.  The children of the directory under the
\* cursor are cleared and replaced by those of a new scan of its path, its
\* size and entry_count are taken from the new root; its ancestors keep their
\* numbers and the mark pane its list, whose items below the directory now
\* belong to Entries that are no longer in the tree.  When scan throws, nothing
\* catches the exception.  (Not explored: a "[Search Results]" entry that
\* holds an Entry below the refreshed directory.)
KeyRefreshSelected ==
    /\ NormalKeys
    /\ Typed({"r"})
    /\ IF /\ HasSelected
          /\ entries[Selected].is_directory
          /\ ~entries[Selected].is_symlink
       THEN \E old \in {Below(entries, Selected)} :
            \E sc \in {ScanSeq(<<entries[Selected].path>>, live, config)} :
               /\ \A e \in DOMAIN entries :
                     IsSearch(e) => Range(entries[e].children) \cap old = {}
               /\ IF sc.threw
                  THEN /\ entries' = [entries EXCEPT ![Selected].children = <<>>]
                       /\ ui' = [ui EXCEPT !.pc = "terminated"]
                  ELSE \E new \in {UnderSelected(sc.ents, Selected)} :
                       \E ents \in {[e \in (DOMAIN entries \ old) \cup DOMAIN new |->
                                       IF e = Selected
                                       THEN [entries[e] EXCEPT
                                               !.children = new[e].children,
                                               !.size = new[e].size,
                                               !.entry_count = new[e].entry_count]
                                       ELSE IF e \in DOMAIN new THEN new[e]
                                       ELSE entries[e]]} :
                          /\ entries' = ents
                          /\ ui' = [ui EXCEPT
                                 !.current_view = View(ents, ui.current_dir),
                                 !.marked_items =
                                    [i \in 1..Len(@) |->
                                        IF @[i].e \in old
                                        THEN [@[i] EXCEPT !.stale = TRUE]
                                        ELSE @[i]]]
       ELSE UNCHANGED <<ui, entries>>
    /\ UNCHANGED <<roots, live>> /\ ScanIdle

\* handle_key('/'): start_glob_search.
StartGlobSearch ==
    /\ NormalKeys
    /\ Typed({"/"})
    /\ ui' = [ui EXCEPT !.glob_search_active = TRUE, !.glob_pattern = <<>>]
    /\ TreeSame /\ ScanIdle

\* handle_glob_search, a printable character.
GlobChar ==
    /\ GlobKeys
    /\ Len(ui.glob_pattern) < MaxPattern
    /\ \E c \in env.keys \cap Printable :
          ui' = [ui EXCEPT !.glob_pattern = Append(@, c)]
    /\ TreeSame /\ ScanIdle

\* handle_glob_search, Backspace.
GlobBackspace ==
    /\ GlobKeys
    /\ Typed({"KEY_BACKSPACE"})
    /\ ui' = [ui EXCEPT !.glob_pattern = IF @ = <<>> THEN @ ELSE Pop(@)]
    /\ TreeSame /\ ScanIdle

\* A faulty Escape that also leaves the directory shown for the first one on
\* the stack.
GlobEscapeToTop ==
    /\ GlobKeys
    /\ Typed({"ESC"})
    /\ ui' = [ui EXCEPT !.glob_search_active = FALSE,
                        !.current_dir = ui.navigation_stack[1],
                        !.navigation_stack = <<ui.navigation_stack[1]>>,
                        !.current_view = View(entries, ui.navigation_stack[1])]
    /\ TreeSame /\ ScanIdle

\* handle_glob_search, Escape.
GlobEscape ==
    /\ GlobKeys
    /\ Typed({"ESC"})
    /\ ui' = [ui EXCEPT !.glob_search_active = FALSE]
    /\ TreeSame /\ ScanIdle

\* search_entries: root itself when its file name matches, then its children.
RECURSIVE SearchEntries(_, _, _)
RECURSIVE SearchOver(_, _, _)
SearchEntries(ents, e, pat) ==
    (IF GlobMatch(pat, FileName[ents[e].path]) THEN <<e>> ELSE <<>>)
    \o (IF ents[e].is_directory /\ ~ents[e].is_symlink
        THEN SearchOver(ents, ents[e].children, pat)
        ELSE <<>>)
SearchOver(ents, s, pat) ==
    IF s = <<>> THEN <<>>
    ELSE SearchEntries(ents, Head(s), pat) \o SearchOver(ents, Tail(s), pat)

\* handle_glob_search, Enter: perform_glob_search; with matches the view
\* moves into a new "[Search Results]" entry that has them as children.
GlobEnter ==
    /\ GlobKeys
    /\ Typed({"\n"})
    /\ Searches(ui.navigation_stack) < MaxSearches
    /\ LET found == IF ui.glob_pattern = <<>> THEN <<>>
                    ELSE SearchEntries(entries, ui.current_dir, ui.glob_pattern)
           id == SearchId(Searches(ui.navigation_stack) + 1)
           sizes == [c \in DOMAIN entries |-> entries[c].size]
           counts == [c \in DOMAIN entries |-> entries[c].entry_count]
           results == [NewEntry(SearchPath, {}) EXCEPT
                          !.is_directory = TRUE,
                          !.children = found,
                          !.size = SumOver(found, sizes),
                          !.entry_count = SumOver(found, counts)]
           ents == entries @@ (id :> results)
       IN  IF found = <<>>
           THEN /\ ui' = [ui EXCEPT !.glob_search_active = FALSE]
                /\ UNCHANGED entries
           ELSE /\ entries' = ents
                /\ ui' = [ui EXCEPT !.glob_search_active = FALSE,
                                    !.current_dir = id,
                                    !.navigation_stack = Append(@, id),
                                    !.current_view = View(ents, id),
                                    !.selected_index = 0]
    /\ UNCHANGED <<roots, live>> /\ ScanIdle

SwitchFocusUnguarded ==
    /\ InLoop
    /\ Typed({"\t"})
    /\ ui' = IF ui.focused_pane = "Main"
             THEN [ui EXCEPT !.focused_pane = "Mark", !.mp_focused = TRUE,
                             !.mp_selected = IF ui.marked_items # <<>>
                                             THEN Len(ui.marked_items) - 1 ELSE @]
             ELSE [ui EXCEPT !.focused_pane = "Main", !.mp_focused = FALSE]
    /\ TreeSame /\ ScanIdle

\* run(), Tab while the mark pane is on screen: switch_focus.  set_focus(true)
\* puts the pane's cursor on the last item of the list.
SwitchFocus ==
    /\ InLoop
    /\ Typed({"\t"})
    /\ PaneVisible(ui)
    /\ ui' = IF ui.focused_pane = "Main"
             THEN [ui EXCEPT !.focused_pane = "Mark", !.mp_focused = TRUE,
                             !.mp_selected = IF ui.marked_items # <<>>
                                             THEN Len(ui.marked_items) - 1 ELSE @]
             ELSE [ui EXCEPT !.focused_pane = "Main", !.mp_focused = FALSE]
    /\ TreeSame /\ ScanIdle

\* handle_key('i'): the quick view of the entry under the cursor, on tab 1.
KeyQuickView ==
    /\ NormalKeys
    /\ Typed({"i"})
    /\ ui' = IF HasSelected
             THEN SwitchTab([ui EXCEPT !.quickview_active = TRUE], 1)
             ELSE ui
    /\ TreeSame /\ ScanIdle

\* handle_key('I'): the preview is cleared; with marked files listed the pane
\* goes to tab 2.
KeyClearPreview ==
    /\ NormalKeys
    /\ Typed({"I"})
    /\ ui' = TabOfMarks([ui EXCEPT !.quickview_active = FALSE])
    /\ TreeSame /\ ScanIdle

\* handle_mark_pane_key (1, 2).  While the quick-view tab shows a preview the
\* first switch sets needs_redraw for both keys, and the function redraws and
\* returns before it comes to switch_tab.
MarkPaneTab(n) ==
    /\ InLoop /\ MarkFocus
    /\ Typed({IF n = 1 THEN "1" ELSE "2"})
    /\ ui' = IF QuickviewMode THEN ui ELSE SwitchTab(ui, n)
    /\ TreeSame /\ ScanIdle
MarkPaneTabKey == \E n \in {1, 2} : MarkPaneTab(n)

\* handle_mark_pane_key: MarkPane::navigate_down (KEY_DOWN, j).  (While the
\* quick-view tab shows a preview, the keys of the list scroll the preview or
\* are consumed; only 1, 2, q, Q and Escape have an effect modelled here.)
MarkPaneDown ==
    /\ InLoop /\ MarkFocus /\ ~QuickviewMode
    /\ Typed({"KEY_DOWN", "j"})
    /\ ui' = [ui EXCEPT !.mp_selected =
                  IF @ + 1 < Len(ui.marked_items) THEN @ + 1 ELSE @]
    /\ TreeSame /\ ScanIdle

\* handle_mark_pane_key: MarkPane::navigate_up (KEY_UP, k).
MarkPaneUp ==
    /\ InLoop /\ MarkFocus /\ ~QuickviewMode
    /\ Typed({"KEY_UP", "k"})
    /\ ui' = [ui EXCEPT !.mp_selected = IF @ > 0 THEN @ - 1 ELSE @]
    /\ TreeSame /\ ScanIdle

\* A sequence without its element at position i (1-based).
Erase(seq, i) == SubSeq(seq, 1, i - 1) \o SubSeq(seq, i + 1, Len(seq))

\* handle_mark_pane_key (space, x, d): MarkPane::remove_selected; an emptied
\* pane gives the focus back to the main pane.
MarkPaneRemoveSelected ==
    /\ InLoop /\ MarkFocus /\ ~QuickviewMode
    /\ Typed({" ", "x", "d"})
    /\ IF ui.mp_selected < Len(ui.marked_items)
       THEN LET item == ui.marked_items[ui.mp_selected + 1]
                items == Erase(ui.marked_items, ui.mp_selected + 1)
            IN  /\ entries' = IF item.stale THEN entries
                              ELSE [entries EXCEPT ![item.e].marked = FALSE]
                /\ ui' = [ui EXCEPT
                       !.marked_items = items,
                       !.mp_selected = IF @ >= Len(items) /\ Len(items) > 0
                                       THEN Len(items) - 1 ELSE @,
                       !.focused_pane = IF items = <<>> THEN "Main" ELSE @,
                       !.mp_focused = IF items = <<>> THEN FALSE ELSE @]
       ELSE /\ entries' = entries
            /\ ui' = IF ui.marked_items = <<>>
                     THEN [ui EXCEPT !.focused_pane = "Main", !.mp_focused = FALSE]
                     ELSE ui
    /\ UNCHANGED <<roots, live>> /\ ScanIdle

\* handle_mark_pane_key (a, A): MarkPane::remove_all, focus to the main pane.
MarkPaneRemoveAll ==
    /\ InLoop /\ MarkFocus /\ ~QuickviewMode
    /\ Typed({"a", "A"})
    /\ entries' = UnmarkListed(entries, ui.marked_items)
    /\ ui' = [ui EXCEPT !.marked_items = <<>>, !.mp_selected = 0,
                        !.focused_pane = "Main", !.mp_focused = FALSE]
    /\ UNCHANGED <<roots, live>> /\ ScanIdle

\* handle_mark_pane_key (q, Q, Escape): focus to the main pane.
MarkPaneEscape ==
    /\ InLoop /\ MarkFocus
    /\ Typed({"q", "Q", "ESC"})
    /\ ui' = [ui EXCEPT !.focused_pane = "Main", !.mp_focused = FALSE]
    /\ TreeSame /\ ScanIdle

\* handle_key('?'): show_help = !show_help.  Nothing else writes show_help;
\* while it is set draw_full paints the help over the list, and run() hands
\* every key on as before.
KeyHelp ==
    /\ NormalKeys
    /\ Typed({"?"})
    /\ ui' = [ui EXCEPT !.show_help = ~@]
    /\ TreeSame /\ ScanIdle

\* operator<< of std::filesystem::path writes the path as std::quoted does:
\* between double quotes (the paths here hold no quote and no backslash to
\* escape).
Quoted(p) == <<"\"", p, "\"">>
\* print_marked_paths: the lines written to stdout, one for every entry
\* collect_marked_entries finds under the roots.
PrintMarkedPaths(ents, rts) ==
    LET marked_entries == CollectMarkedOver(ents, rts)
    IN  [i \in 1..Len(marked_entries) |-> Quoted(ents[marked_entries[i]].path)]

\* handle_key (q, Q) returns false: run() leaves its loop, and prints the
\* marked paths.
Quit ==
    /\ NormalKeys
    /\ Typed({"q", "Q"})
    /\ ui' = [ui EXCEPT !.pc = "exited",
                        !.stdout = PrintMarkedPaths(entries, roots)]
    /\ TreeSame /\ ScanIdle

\* ------------------------------------------------------- interactive runs
\* The sessions explored: the command line, the paths whose removal is
\* refused, and the filesystem when the program starts.
UIInputs ==
    { \* one root with files, a subdirectory and a symlink to a directory:
      \* marking here and there, refreshing a directory, and deleting
      <<Cfg(<<"A">>, FALSE, FALSE),
        [NoHang EXCEPT !.keys = {"KEY_DOWN", "KEY_RIGHT", "KEY_LEFT", " ", "d",
                                 "r", "q"}],
        {"A", "A/B", "A/B/y", "A/C", "A/s", "A/x"}>>,
      \* two roots, one file that cannot be removed
      <<Cfg(<<"A/B", "A/C">>, FALSE, FALSE),
        [NoHang EXCEPT !.locked = {"A/B/y"},
                       !.keys = {"KEY_DOWN", "KEY_UP", "KEY_RIGHT", "a", "d"}],
        {"A", "A/B", "A/B/E", "A/B/y", "A/C", "A/C/z"}>>,
      \* one small root: searching, marking among the results, deleting
      <<Cfg(<<"A/B">>, FALSE, FALSE),
        [NoHang EXCEPT !.keys = {"KEY_BACKSPACE", "d", "/", "*", "\n", "ESC"}],
        {"A", "A/B", "A/B/y", "A/B/E"}>>,
      \* the same root: the mark pane, refreshing, leaving
      <<Cfg(<<"A/B">>, FALSE, FALSE),
        [NoHang EXCEPT !.keys = {"KEY_DOWN", "KEY_UP", " ", "d", "R", "ESC",
                                 "\t", "a", "q"}],
        {"A", "A/B", "A/B/y", "A/B/E"}>>,
      \* the same root: letters typed at the search prompt
      <<Cfg(<<"A/B">>, FALSE, FALSE),
        [NoHang EXCEPT !.keys = {"/", "j", "k", "b", "KEY_BACKSPACE", "ESC"}],
        {"A", "A/B", "A/B/y", "A/B/E"}>>,
      \* the same root: the quick view and the tabs of the mark pane
      <<Cfg(<<"A/B">>, FALSE, FALSE),
        [NoHang EXCEPT !.keys = {" ", "i", "I", "\t", "1", "2", "ESC"}],
        {"A", "A/B", "A/B/y", "A/B/E"}>>,
      \* the same root with a third entry: movement keys in quick succession,
      \* and marking
      <<Cfg(<<"A/B">>, FALSE, FALSE),
        [NoHang EXCEPT !.fast = TRUE, !.keys = {"KEY_DOWN", "KEY_UP", " "}],
        {"A", "A/B", "A/B/y", "A/B/E", "A/B/E/w"}>>,
      \* a regular file as the only root
      <<Cfg(<<"A/x">>, FALSE, FALSE),
        [NoHang EXCEPT !.keys = {"KEY_DOWN", "KEY_RIGHT", "KEY_LEFT"}],
        {"A", "A/x"}>>,
      \* two roots, the smaller one named first: walking about, with the help
      <<Cfg(<<"A/C", "A/B">>, FALSE, FALSE),
        [NoHang EXCEPT !.keys = {"KEY_DOWN", "KEY_RIGHT", "KEY_LEFT", "?"}],
        {"A", "A/B", "A/B/E", "A/B/E/w", "A/B/y", "A/C", "A/C/z"}>> }

\* main() has scanned config.paths and constructed the InteractiveUI.
InitUI ==
    /\ \E in \in UIInputs : config = in[1] /\ env = in[2] /\ live = in[3]
    /\ th = [t \in Threads |-> ThreadInit(t)]
    /\ PoolInit
    /\ root_idx = Len(config.paths)
    /\ inode_map = {}
    /\ visited_dirs = {}
    /\ skipped_entries = 0
    /\ io_errors = 0
    /\ hist = [completed |-> {}, enumerated |-> {}]
    /\ \E sc \in {ScanSeq(config.paths, live, config)} :
       \E ents \in {WithVirtualRoot(sc.ents, sc.roots)} :
          /\ roots = sc.roots
          /\ entries = ents
          /\ ui = UIStart(ents, sc.roots)

\* One key of the user, or the next step of a deletion under way.
NextUI ==
    \/ BatchMove
    \/ IdleApply
    \/ NavigateDown
    \/ NavigateUp
    \/ EnterDirectory
    \/ ExitDirectory
    \/ ToggleMark
    \/ ToggleAllMarks
    \/ KeyD
    \/ ConfirmInput
    \/ DeleteOne
    \/ FinishDelete
    \/ KeyRefreshAll
    \/ KeyRefreshSelected
    \/ StartGlobSearch
    \/ GlobChar
    \/ GlobBackspace
    \/ GlobEscape
    \/ GlobEnter
    \/ SwitchFocus
    \/ MarkPaneDown
    \/ MarkPaneUp
    \/ MarkPaneRemoveSelected
    \/ MarkPaneRemoveAll
    \/ MarkPaneEscape
    \/ MarkPaneTabKey
    \/ KeyQuickView
    \/ KeyClearPreview
    \/ KeyHelp
    \/ Quit

SpecUI == InitUI /\ [][NextUI]_vars

\* ------------------------------------------------------ properties of the UI
\* Normal mode: run() waits for a key that goes to handle_key.
NormalMode(u) == u.pc = "loop" /\ u.focused_pane = "Main" /\ ~u.glob_search_active

\* Removing the marked entry e removes path p: p is its path or, when e is a
\* directory and no symlink, a path below it.
RemovedBy(e, p) ==
    \/ p = entries[e].path
    \/ /\ entries[e].is_directory /\ ~entries[e].is_symlink
       /\ p \in SubTree(entries[e].path)

\* C7: nothing is removed from the filesystem unless the answer to the
\* confirmation dialog was exactly YES; the removal loop is entered only from
\* the dialog and only with that answer; after any other answer the
\* filesystem, the tree with its marked flags and the mark pane are as before
\* and the controller is in Normal mode.
C7_OnlyYESDeletes ==
    [][ /\ (live' # live) => (ui.pc = "deleting" /\ ui.confirmation = YES)
        /\ (ui.pc # "deleting" /\ ui'.pc = "deleting") =>
               (ui.pc = "dialog" /\ ui'.confirmation = YES)
        /\ (ui.pc = "dialog" /\ ui'.pc # "deleting") =>
               ( /\ ui'.confirmation # YES
                 /\ live' = live /\ entries' = entries /\ roots' = roots
                 /\ ui'.marked_items = ui.marked_items
                 /\ NormalMode(ui') ) ]_vars

\* The dialog was answered "yes": Normal mode, the mark and the file are there.
C7_Witness ==
    /\ NormalMode(ui)
    /\ ui.confirmation = <<"y", "e", "s">>
    /\ \E e \in DOMAIN entries : entries[e].marked /\ entries[e].path \in live

\* C8: during and at the end of a confirmed deletion every path that has gone
\* from the filesystem is the path of an entry marked when the deletion was
\* confirmed, or lies below a marked directory that is no symlink; so an
\* unmarked entry outside the marked directories is still there, and so is
\* the target of a marked symlink.
C8_OnlyMarkedPathsRemoved ==
    ui.pc = "deleting" =>
        \A p \in ui.del.before \ live : \E e \in ui.del.marked : RemovedBy(e, p)

\* The symlink A/s and the directory A/B were marked and are gone with what
\* was in A/B; the symlink's target A/C and the unmarked file A/x are there.
C8_Witness ==
    /\ ui.pc = "deleting" /\ ui.todo = <<>>
    /\ {entries[e].path : e \in ui.del.marked} = {"A/s", "A/B"}
    /\ ui.del.before \ live = {"A/s", "A/B", "A/B/y"}
    /\ {"A/C", "A/x"} \subseteq live

\* C9: a confirmed deletion attempts a removal for every marked entry of the
\* tree: each is in the list the loop iterates, or below a directory in it.
C9_WholeMarkSetDeleted ==
    ui.pc = "deleting" =>
        \A e \in ui.del.marked :
            \E i \in 1..Len(ui.marked_entries) :
                LET m == ui.marked_entries[i] IN
                \/ m = e
                \/ /\ entries[m].is_directory /\ ~entries[m].is_symlink
                   /\ entries[e].path \in SubTree(entries[m].path)

\* C10: when the removal loop of a confirmed deletion is through, the next
\* step leaves the controller in Normal mode (the program is running), the
\* mark pane empty and no entry of the tree marked.
C10_DeletionEndsInNormalMode ==
    [][ (ui.pc = "deleting" /\ ui.todo = <<>>) =>
           ( /\ NormalMode(ui')
             /\ ui'.marked_items = <<>>
             /\ \A e \in DOMAIN entries' : ~entries'[e].marked ) ]_vars

\* ------------------------------------------------------------ the mark pane
\* The entries reachable from the current roots.
Reachable == UNION {{roots[i]} \cup Below(entries, roots[i]) : i \in 1..Len(roots)}

\* C11: whenever the loop waits for a key, the mark pane lists exactly the
\* marked entries reachable from the current roots, and no Entry that has left
\* the tree.
C11_MarkSetIsMarkedReachable ==
    InLoop =>
        /\ \A i \in 1..Len(ui.marked_items) : ~ui.marked_items[i].stale
        /\ {ui.marked_items[i].e : i \in 1..Len(ui.marked_items)}
              = {e \in Reachable : entries[e].marked}

\* ------------------------------------------------- more properties of scan
\* C12: in the forest scan returned, a symlink entry has size, apparent_size
\* and entry_count 0 and no children, and no symlink entry, child or root, had
\* its directory enumerated.
C12_SymlinksInert ==
    ScanReturned =>
        \A e \in DOMAIN entries :
            entries[e].is_symlink =>
                /\ entries[e].size = 0
                /\ entries[e].apparent_size = 0
                /\ entries[e].entry_count = 0
                /\ entries[e].children = <<>>
                /\ e \notin hist.enumerated

\* The root entry of the tree that entry e belongs to.
RootOf(e) == <<e[1], config.paths[e[1]]>>

\* C13: with stay_on_filesystem, an entry that is not a symlink and lies on
\* another device than its root adds nothing to any size of the returned
\* forest (it has size 0 and nothing was put below it), and its directory was
\* not enumerated.
C13_StaysOnFilesystem ==
    (ScanReturned /\ config.stay_on_filesystem) =>
        \A e \in DOMAIN entries :
            (/\ ~entries[e].is_symlink
             /\ entries[e].device_id # entries[RootOf(e)].device_id)
            => /\ entries[e].size = 0
               /\ entries[e].children = <<>>
               /\ e \notin hist.enumerated

\* A returned scan with stay_on_filesystem of a root that has a mount point of
\* another device, with a file in it, among its items; the root's size is that
\* of the file on its own device.
C13_Witness ==
    /\ ScanReturned
    /\ config.stay_on_filesystem
    /\ {"A/M", "A/M/v", "A/C/z"} \subseteq live
    /\ FS["A/M"].dev # entries[<<1, "A">>].device_id
    /\ entries[<<1, "A">>].size = FS["A/C/z"].disk

\* C14: with stay_on_filesystem, a directory that lies on another device than
\* the root is still among the children of its enumerated parent in the
\* returned forest, with size 0 and no counted children.
C14_MountPointListed ==
    (ScanReturned /\ config.stay_on_filesystem) =>
        \A d \in hist.enumerated :
            \A i \in 1..Len(Listing(entries[d].path, live)) :
                LET p == Listing(entries[d].path, live)[i]
                IN  (FS[p].kind = "dir" /\ FS[p].dev # entries[RootOf(d)].device_id)
                    => \E c \in Range(entries[d].children) :
                          /\ entries[c].path = p
                          /\ entries[c].size = 0
                          /\ entries[c].entry_count = 0

\* should_count_entry returned true for the file entry f during the walk: its
\* size was attributed (a size above 0 is stored for a counted file only), or
\* the file is outside deduplication (count_hard_links, or a single link), for
\* which should_count_entry is true whatever inode_map holds.  A root file is
\* sized by scan() without the question being asked.
Counted(f) ==
    \/ f \in Range(roots)
    \/ entries[f].size > 0
    \/ ShouldCount(entries[f], {Key(f)}, config)

\* The regular files among the entries.
RegularFiles == {f \in DOMAIN entries : ~entries[f].is_directory /\ ~entries[f].is_symlink}

\* C15: in the forest scan returned, the entry_count of a directory is the
\* number of regular files below it that were counted during the walk, and the
\* entry_count of a regular file is 1 when it was counted and 0 when not.
C15_EntryCountIsCountedFiles ==
    ScanReturned =>
        /\ \A d \in DOMAIN entries :
              (entries[d].is_directory /\ ~entries[d].is_symlink) =>
                 entries[d].entry_count =
                    Cardinality({f \in Below(entries, d) \cap RegularFiles : Counted(f)})
        /\ \A f \in RegularFiles :
              entries[f].entry_count = IF Counted(f) THEN 1 ELSE 0

\* ------------------------------------------------------ the tree of the UI
\* C16: whenever the loop waits for a key, the children of every directory
\* the UI holds (scanned directories, the virtual root, a "[Search Results]"
\* directory) are in descending order of size.
C16_ChildrenSortedBySize ==
    InLoop =>
        \A d \in DOMAIN entries :
            \A i \in 1..(Len(entries[d].children) - 1) :
                entries[entries[d].children[i]].size
                    >= entries[entries[d].children[i + 1]].size

\* ------------------------------------------------------ a task that throws
\* Worker w is about to run the statement of its task that throws.
Throwing(w) ==
    /\ At(w, "d_visit")
    /\ LET e == Top(w).e
       IN  /\ ~entries[e].is_symlink
           /\ entries[e].path \in env.nomem
           /\ ~AlreadyVisited(Canonical(entries[e].path, live))
           /\ Canonical(entries[e].path, live) \notin config.ignore_dirs

\* C17: a task that throws is still done for the pool: its worker goes on,
\* the counters come down and wait_all returns.
C17_ThrowingTaskIsDone == (\E w \in Workers : Throwing(w)) ~> WaitAllReturned

\* ---------------------------------------------------------------- refresh
\* size and entry_count at every path of the tree below the roots.
Numbers(ents, rts) ==
    {<<ents[e].path, ents[e].size, ents[e].entry_count>> :
        e \in UNION {{rts[i]} \cup Below(ents, rts[i]) : i \in 1..Len(rts)}}

\* The tree holds the paths that exist below its roots, no more and no less:
\* the filesystem is as the last scan saw it.
Unchanged ==
    {entries[e].path : e \in Reachable}
        = live \cap UNION {SubTree(entries[roots[i]].path) : i \in 1..Len(roots)}

\* C18: a refresh (r or R) of a tree whose filesystem has not changed leaves
\* size and entry_count at every path of the tree as they were.
C18_RefreshKeepsNumbers ==
    [][(Unchanged /\ (KeyRefreshSelected \/ KeyRefreshAll) /\ ui'.pc = "loop")
          => Numbers(entries', roots') = Numbers(entries, roots)]_vars

\* ------------------------------------------------------------------- keys
\* C19: in Normal mode the key d opens the confirmation dialog when the mark
\* pane lists something; when it lists nothing, d marks the entry under the
\* cursor and moves the cursor one entry down (it stays on the last entry).
C19_DeleteKey ==
    [][KeyD =>
          IF ui.marked_items # <<>>
          THEN ui'.pc = "dialog"
          ELSE HasSelected =>
                 /\ entries'[Selected].marked
                 /\ ui'.selected_index =
                       IF ui.selected_index + 1 < Len(ui.current_view)
                       THEN ui.selected_index + 1 ELSE ui.selected_index]_vars

\* C20: while the help overlay is shown, a key closes it, and the UI is in
\* Normal mode afterwards.
C20_AnyKeyClosesHelp ==
    [][(InLoop /\ ui.show_help) => (~ui'.show_help /\ NormalMode(ui'))]_vars

\* ------------------------------------------------------------ glob search
\* The keys of a session that are no characters (Backspace, Enter and Escape
\* aside, which handle_glob_search knows).
OtherKeys == {"KEY_DOWN", "KEY_UP", "KEY_RIGHT", "KEY_LEFT", "\t"}

\* C21: while the search prompt is open, a typed character or Backspace (a
\* key after which the prompt is still open, in a session without other keys)
\* appends to the pattern or removes its last character, and changes nothing
\* else: not the cursor, the focus, the directory shown or the marks.
C21_PromptOnlyEditsPattern ==
    [][(/\ GlobKeys
        /\ env.keys \cap OtherKeys = {}
        /\ ui'.pc = "loop" /\ ui'.glob_search_active)
       => /\ ui' = [ui EXCEPT !.glob_pattern = ui'.glob_pattern]
          /\ entries' = entries
          /\ \/ \E c \in Printable \cup {"j", "k"} :
                   ui'.glob_pattern = Append(ui.glob_pattern, c)
             \/ ui.glob_pattern # <<>> /\ ui'.glob_pattern = Pop(ui.glob_pattern)]_vars

\* The matches a commit of the pattern typed so far would find.
Matches ==
    IF ui.glob_pattern = <<>> THEN <<>>
    ELSE SearchEntries(entries, ui.current_dir, ui.glob_pattern)

\* C22: Enter on a pattern with a match puts one new "[Search Results]"
\* directory, holding the matches, on the navigation stack and makes it the
\* current directory; going left from such a directory shows the directory
\* below it on the stack, the one the search was started in; Enter without a
\* match and Escape leave the current directory and the stack as they are.
C22_SearchResultsOnStack ==
    [][/\ (GlobEnter /\ Matches # <<>>) =>
             /\ IsSearch(ui'.current_dir)
             /\ ui'.current_dir \notin DOMAIN entries
             /\ entries'[ui'.current_dir].children = Matches
             /\ ui.current_dir = ui.navigation_stack[Len(ui.navigation_stack)]
             /\ ui'.navigation_stack = Append(ui.navigation_stack, ui'.current_dir)
       /\ ((GlobEnter /\ Matches = <<>>) \/ GlobEscape) =>
             /\ ui'.current_dir = ui.current_dir
             /\ ui'.navigation_stack = ui.navigation_stack
       /\ (ExitDirectory /\ IsSearch(ui.current_dir)) =>
             /\ ui'.current_dir = ui.navigation_stack[Len(ui.navigation_stack) - 1]
             /\ ui'.navigation_stack = Pop(ui.navigation_stack)]_vars

\* A search was committed with matches: its "[Search Results]" directory is
\* the current one, on top of the directory the search was started in.
C22_Witness ==
    /\ InLoop
    /\ IsSearch(ui.current_dir)
    /\ Len(ui.navigation_stack) = 2
    /\ ~IsSearch(ui.navigation_stack[1])
    /\ entries[ui.current_dir].children # <<>>

\* ================================================================ glob_match
\* glob_match as a function of its two strings: every pattern and every name
\* of bounded length over a few characters (a letter in both cases, another
\* letter, the dot, the two wildcards).
MaxGlob == 2
MaxName == 3
Strings(chars, n) == UNION {[1..k -> chars] : k \in 0..n}
\* perform_glob_search does not search for an empty pattern.
GlobPatterns == Strings({"a", "A", ".", "*", "?"}, MaxGlob) \ {<<>>}
GlobNames == Strings({"a", "b", "."}, MaxName)

\* A call of glob_match(pattern, text) has been made.
InitGlob ==
    /\ \E pat \in GlobPatterns, txt \in GlobNames :
          ui = [pc |-> "glob_match", pattern |-> pat, text |-> txt, result |-> FALSE]
    /\ config = Cfg(<<>>, FALSE, FALSE) /\ env = NoHang /\ live = {}
    /\ th = [t \in Threads |-> ThreadInit(t)]
    /\ PoolInit /\ ScannerInit

\* glob_match returns.
GlobMatchReturn ==
    /\ ui.pc = "glob_match"
    /\ ui' = [ui EXCEPT !.pc = "glob_returned",
                        !.result = GlobMatch(ui.pattern, ui.text)]
    /\ TreeSame /\ ScanIdle

NextGlob == GlobMatchReturn

SpecGlob == InitGlob /\ [][NextGlob]_vars

\* The glob pat matches the whole of txt, letters compared without case: `*`
\* stands for any sequence of characters, `?` for one character, every other
\* character for itself.
RECURSIVE WholeMatch(_, _)
WholeMatch(pat, txt) ==
    IF pat = <<>> THEN txt = <<>>
    ELSE IF Head(pat) = "*"
    THEN \E k \in 0..Len(txt) : WholeMatch(Tail(pat), SubSeq(txt, k + 1, Len(txt)))
    ELSE /\ txt # <<>>
         /\ Head(pat) = "?" \/ Lower(Head(pat)) = Lower(Head(txt))
         /\ WholeMatch(Tail(pat), Tail(txt))

\* C23: glob_match says yes exactly when the glob matches the name as a whole.
C23_MatchIsWholeName ==
    ui.pc = "glob_returned" => (ui.result <=> WholeMatch(ui.pattern, ui.text))

\* ------------------------------------------------------------ the mark pane
\* C24: while the mark pane has the focus, the key 1 leaves it on the quick
\* view tab and the key 2 on the tab of the marked files, whatever tab it was
\* on and whether or not a preview is shown.
C24_DigitsSelectTabs ==
    (InLoop /\ MarkFocus) =>
        /\ Typed({"1"}) => ENABLED (MarkPaneTab(1) /\ ui'.current_tab = "QUICKVIEW")
        /\ Typed({"2"}) => ENABLED (MarkPaneTab(2) /\ ui'.current_tab = "MARKED_FILES")

\* C25: exactly one pane has focus (the main pane draws itself focused when
\* focused_pane is Main, the mark pane when its has_focus flag is set); the mark
\* pane has focus only while it is on screen, that is while its list is
\* non-empty or the quick view is active; and focus moves to the mark pane by
\* no step other than a Tab typed while the pane is on screen.
C25_FocusOnVisiblePane ==
    /\ []((ui.focused_pane = "Mark" <=> ui.mp_focused)
          /\ (ui.focused_pane = "Mark" => PaneVisible(ui)))
    /\ [][ui'.focused_pane # ui.focused_pane
            => \/ /\ Typed({"\t"}) /\ PaneVisible(ui)
               \/ /\ ui.focused_pane = "Mark" /\ ui'.focused_pane = "Main"]_vars
\* The mark pane has focus with one item listed and no preview: removing the
\* item makes the pane disappear.
C25_Witness ==
    /\ InLoop /\ MarkFocus
    /\ Len(ui.marked_items) = 1 /\ ~ui.quickview_active
    /\ Typed({" ", "x", "d"})

\* ------------------------------------------------- the main pane's renderer
\* Longest current_view of the renderer's sessions.
MaxView == 4
\* Tallest terminal of the renderer's sessions (LINES); the lowest has 6 lines.
MaxLines == 7

\* The indices of the entries on the list's lines: draw_full and
\* draw_differential draw from view_offset while y < height - 2, from y = 2.
VisibleLines(u) ==
    { i \in u.view_offset .. (u.view_offset + (u.LINES - 4) - 1) : i < u.size }

\* draw_full: the window is erased and painted anew.
DrawFull(u) ==
    [u EXCEPT !.drawn = [kind |-> "full", lines |-> VisibleLines(u)],
              !.last_selected_index = u.selected_index,
              !.last_view_offset = u.view_offset]

DrawDifferentialNewLine(u) ==
    IF u.selected_index = u.last_selected_index /\ u.view_offset = u.last_view_offset
    THEN [u EXCEPT !.drawn = [kind |-> "none", lines |-> {}]]
    ELSE [u EXCEPT !.drawn = [kind |-> "lines", lines |-> {u.selected_index} \cap VisibleLines(u)],
                   !.last_selected_index = u.selected_index,
                   !.last_view_offset = u.view_offset]

\* draw_differential.  draw_entry_line returns at once for an index that is not
\* in current_view.
DrawDifferential(u) ==
    LET selection_changed == u.selected_index # u.last_selected_index
        view_scrolled == u.view_offset # u.last_view_offset
        InWindow(i) == i >= u.view_offset /\ i < u.view_offset + (u.LINES - 4)
    IN  IF ~selection_changed /\ ~view_scrolled
        THEN [u EXCEPT !.drawn = [kind |-> "none", lines |-> {}]]
        ELSE [u EXCEPT
                !.drawn = [kind |-> "lines",
                           lines |-> IF view_scrolled THEN VisibleLines(u)
                                     ELSE { i \in {u.last_selected_index, u.selected_index} :
                                              i # SIZE_MAX /\ InWindow(i) /\ i < u.size }],
                !.last_selected_index = u.selected_index,
                !.last_view_offset = u.view_offset]

\* navigate_up, with its scrolling.
MoveUp(u) ==
    IF u.selected_index > 0
    THEN [u EXCEPT !.selected_index = @ - 1,
                   !.view_offset = IF u.selected_index - 1 < @ THEN u.selected_index - 1 ELSE @]
    ELSE u

\* navigate_down, with its scrolling.
MoveDown(u) ==
    IF u.selected_index + 1 < u.size
    THEN [u EXCEPT !.selected_index = @ + 1,
                   !.view_offset = IF u.selected_index + 1 >= @ + (u.LINES - 4)
                                   THEN u.selected_index + 1 - (u.LINES - 4) + 1 ELSE @]
    ELSE u

\* apply_movement.  current_view.size() - 1 is SIZE_MAX for an empty view.
ApplyMovement(u, delta) ==
    LET last == IF u.size = 0 THEN SIZE_MAX ELSE u.size - 1
        new_index == IF delta > 0
                     THEN (IF u.selected_index + delta < last
                           THEN u.selected_index + delta ELSE last)
                     ELSE (IF -delta > u.selected_index THEN 0
                           ELSE u.selected_index + delta)
    IN  IF delta = 0 \/ new_index = u.selected_index THEN u
        ELSE [u EXCEPT !.selected_index = new_index,
                       !.view_offset =
                           IF new_index < @ THEN new_index
                           ELSE IF new_index >= @ + (u.LINES - 4)
                                THEN new_index - (u.LINES - 4) + 1 ELSE @]

\* A session of the renderer: run() is about to draw for the first time, on a
\* terminal of 6 .. MaxLines lines, with 0 .. MaxView entries in the view.
InitDraw ==
    /\ \E n \in 0..MaxView, h \in 6..MaxLines :
          ui = [pc |-> "draw", size |-> n, LINES |-> h,
                selected_index |-> 0, view_offset |-> 0,
                last_selected_index |-> SIZE_MAX, last_view_offset |-> SIZE_MAX,
                needs_full_redraw |-> TRUE,
                cause |-> "start", drawn |-> [kind |-> "none", lines |-> {}]]
    /\ config = Cfg(<<>>, FALSE, FALSE) /\ env = NoHang /\ live = {}
    /\ th = [t \in Threads |-> ThreadInit(t)]
    /\ PoolInit /\ ScannerInit

\* run(), top of the loop: draw_full if needs_full_redraw, draw_differential
\* otherwise.
RunDraw ==
    /\ ui.pc = "draw"
    /\ ui' = [(IF ui.needs_full_redraw
               THEN [DrawFull(ui) EXCEPT !.needs_full_redraw = FALSE]
               ELSE DrawDifferential(ui)) EXCEPT !.pc = "getch"]
    /\ TreeSame /\ ScanIdle

\* run(), movement: the moves batched before (pending_move, none if 0) are
\* applied, then the key's own move; ERR is getch() without a key.  (cause
\* records what the iteration did, for the properties.)
RunMovement ==
    /\ ui.pc = "getch"
    /\ \E pending_move \in {-2, 0, 2}, ch \in {"KEY_UP", "KEY_DOWN", "ERR"} :
          /\ pending_move > 0 => ui.selected_index + pending_move <= MaxView
          /\ LET u1 == ApplyMovement(ui, pending_move)
                 u2 == IF ch = "KEY_UP" THEN MoveUp(u1)
                       ELSE IF ch = "KEY_DOWN" THEN MoveDown(u1) ELSE u1
             IN  ui' = [u2 EXCEPT !.pc = "draw",
                                  !.cause = IF pending_move = 0 /\ ch = "ERR"
                                            THEN "none" ELSE "move"]
    /\ TreeSame /\ ScanIdle

\* handle_key: s, n, m, c (sort mode), M, C (columns), ? (help).
RunRepaintKey ==
    /\ ui.pc = "getch"
    /\ \E c \in {"sort", "column", "help"} :
          ui' = [ui EXCEPT !.pc = "draw", !.needs_full_redraw = TRUE, !.cause = c]
    /\ TreeSame /\ ScanIdle

\* enter_directory, exit_directory, and Enter in the search prompt with a
\* match: another directory's entries are in current_view.
RunDirectory ==
    /\ ui.pc = "getch"
    /\ \E n \in 1..MaxView :
          ui' = [ui EXCEPT !.pc = "draw", !.size = n,
                           !.selected_index = 0, !.view_offset = 0,
                           !.needs_full_redraw = TRUE, !.cause = "directory"]
    /\ TreeSame /\ ScanIdle

\* run(), KEY_RESIZE: handle_resize.
RunResize ==
    /\ ui.pc = "getch"
    /\ \E h \in 6..MaxLines :
          LET visible_lines == h - 2
          IN  ui' = [ui EXCEPT
                 !.pc = "draw", !.LINES = h,
                 !.needs_full_redraw = TRUE, !.cause = "resize",
                 !.view_offset =
                     IF @ > 0 /\ ui.selected_index - @ >= visible_lines - 1
                     THEN ui.selected_index - visible_lines + 2 ELSE @]
    /\ TreeSame /\ ScanIdle

NextDraw ==
    \/ RunDraw
    \/ RunMovement
    \/ RunRepaintKey
    \/ RunDirectory
    \/ RunResize

SpecDraw == InitDraw /\ [][NextDraw]_vars

MaxSort == 2
\* The sort modes (enum class SortMode).
SortModes ==
    {"SIZE_DESC", "SIZE_ASC", "NAME_ASC", "NAME_DESC",
     "TIME_DESC", "TIME_ASC", "COUNT_DESC", "COUNT_ASC"}
\* The order of the characters of the names sorted.
NameRank == ("a" :> 1) @@ ("b" :> 2) @@ ("p" :> 3) @@ ("q" :> 4)
\* The entries sorted: a path <<directory, file name>>, and the three numbers
\* the sort modes compare.
SortEntries ==
    [path : {"p", "q"} \X {"a", "b"}, size : {0, 1}, last_modified : {0, 1},
     entry_count : {0}]
\* The views sorted: up to MaxSort entries of different paths, in any order (the
\* children of a directory, or the matches of a search, which come from
\* several directories).
SortViews ==
    { v \in UNION { [1..n -> SortEntries] : n \in 1..MaxSort } :
        \A i, j \in 1..Len(v) : i # j => v[i].path # v[j].path }

\* The comparator apply_sort hands to std::sort in the sort mode m.
SortComp(m, a, b) ==
    CASE m = "SIZE_DESC"  -> a.size > b.size
      [] m = "SIZE_ASC"   -> a.size < b.size
      [] m = "NAME_ASC"   -> NameRank[a.path[2]] < NameRank[b.path[2]]
      [] m = "NAME_DESC"  -> NameRank[a.path[2]] > NameRank[b.path[2]]
      [] m = "TIME_DESC"  -> a.last_modified > b.last_modified
      [] m = "TIME_ASC"   -> a.last_modified < b.last_modified
      [] m = "COUNT_DESC" -> a.entry_count > b.entry_count
      [] m = "COUNT_ASC"  -> a.entry_count < b.entry_count

InitSort ==
    /\ \E v \in SortViews, m \in SortModes :
          ui = [pc |-> "apply_sort", sort_mode |-> m, current_view |-> v]
    /\ config = Cfg(<<>>, FALSE, FALSE) /\ env = NoHang /\ live = {}
    /\ th = [t \in Threads |-> ThreadInit(t)]
    /\ PoolInit /\ ScannerInit

\* apply_sort: std::sort leaves the view a permutation of itself in which no
\* entry comes before one the comparator puts in front of it; the order of
\* entries the comparator does not tell apart is unspecified.
ApplySort ==
    /\ ui.pc = "apply_sort"
    /\ \E v \in SortViews :
          /\ Len(v) = Len(ui.current_view)
          /\ Range(v) = Range(ui.current_view)
          /\ \A i, j \in 1..Len(v) : i < j => ~SortComp(ui.sort_mode, v[j], v[i])
          /\ ui' = [ui EXCEPT !.pc = "sorted", !.current_view = v]
    /\ TreeSame /\ ScanIdle

NextSort == ApplySort

SpecSort == InitSort /\ [][NextSort]_vars

\* path a comes before path b, component by component.
PathBefore(a, b) ==
    \/ NameRank[a[1]] < NameRank[b[1]]
    \/ a[1] = b[1] /\ NameRank[a[2]] < NameRank[b[2]]

\* C27: in a sorted view, of two neighbours that are equal in the key of the
\* sort mode the one with the lexicographically smaller path comes first.
C27_TiesByPath ==
    ui.pc = "sorted" =>
        \A i \in 1..(Len(ui.current_view) - 1) :
            LET a == ui.current_view[i]
                b == ui.current_view[i + 1]
            IN  (~SortComp(ui.sort_mode, a, b) /\ ~SortComp(ui.sort_mode, b, a))
                    => PathBefore(a.path, b.path)

\* C28: when the interactive run has ended, stdout holds one line for every
\* marked entry reachable from the roots, the entry's path, and no other line.
C28_StdoutIsMarkSet ==
    ui.pc = "exited" =>
        LET MarkSet == {e \in Reachable : entries[e].marked}
        IN  /\ Len(ui.stdout) = Cardinality(MarkSet)
            /\ Range(ui.stdout) = {entries[e].path : e \in MarkSet}

\* ------------------------------------------------------- main(): arguments
\* Most arguments on a command line.
MaxArgs == 3
\* The arguments tried, as strings of characters: two flags, an option with a
\* value, an option main() does not know, the subcommand i, a number, and two
\* paths, of which A exists.
ArgTokens ==
    { <<"-", "h">>, <<"-", "x">>, <<"-", "d">>, <<"-", "q">>,
      <<"i">>, <<"3">>, <<"z">>, <<"A">> }
\* The paths fs::exists finds: A and the current directory.
ExistingPaths == { <<"A">>, <<".">> }
\* The value of a decimal digit.
DigitVal ==
    ("0" :> 0) @@ ("1" :> 1) @@ ("2" :> 2) @@ ("3" :> 3) @@ ("4" :> 4) @@
    ("5" :> 5) @@ ("6" :> 6) @@ ("7" :> 7) @@ ("8" :> 8) @@ ("9" :> 9)

\* std::stoi reads an optional sign and the digits that follow, and stops at
\* the first other character; without a digit it throws std::invalid_argument.
\* (Numbers beyond int, for which it throws std::out_of_range, are not tried.)
RECURSIVE StoiDigits(_, _)
StoiDigits(s, acc) ==
    IF s = <<>> \/ Head(s) \notin DOMAIN DigitVal THEN acc
    ELSE StoiDigits(Tail(s), 10 * acc + DigitVal[Head(s)])
StoiThrows(s) ==
    LET t == IF s # <<>> /\ Head(s) \in {"-", "+"} THEN Tail(s) ELSE s
    IN  t = <<>> \/ Head(t) \notin DOMAIN DigitVal
Stoi(s) ==
    IF s # <<>> /\ Head(s) = "-" THEN 0 - StoiDigits(Tail(s), 0)
    ELSE IF s # <<>> /\ Head(s) = "+" THEN StoiDigits(Tail(s), 0)
    ELSE StoiDigits(s, 0)

\* main(), after the loop over the arguments: the default path, and the test
\* that every path exists.  "run" stands for the scan and the output that
\* follow, after which main returns 0.
MainPaths(c) ==
    LET paths == IF c.paths = <<>> THEN << <<".">> >> ELSE c.paths
    IN  IF \E i \in 1..Len(paths) : paths[i] \notin ExistingPaths
        THEN [end |-> "return", code |-> 1, config |-> c]
        ELSE [end |-> "run", code |-> 0, config |-> [c EXCEPT !.paths = paths]]

\* main(), the loop over the arguments, from args[i] on.  An exception of
\* std::stoi is caught nowhere: std::terminate ends the process (abort).
RECURSIVE MainArgs(_, _, _)
MainArgs(args, i, c) ==
    IF i > Len(args) THEN MainPaths(c)
    ELSE LET arg == args[i] IN
         IF arg = <<"-", "h">> THEN [end |-> "return", code |-> 0, config |-> c]
         ELSE IF arg = <<"i">>
         THEN MainArgs(args, i + 1, [c EXCEPT !.interactive_mode = TRUE])
         ELSE IF arg = <<"-", "x">>
         THEN MainArgs(args, i + 1, [c EXCEPT !.stay_on_filesystem = TRUE])
         ELSE IF arg = <<"-", "d">>
         THEN IF i + 1 <= Len(args)
              THEN IF StoiThrows(args[i + 1])
                   THEN [end |-> "terminate", code |-> 134, config |-> c]
                   ELSE MainArgs(args, i + 2, [c EXCEPT !.max_depth = Stoi(args[i + 1])])
              ELSE MainArgs(args, i + 1, c)
         ELSE IF arg[1] # "-"
         THEN MainArgs(args, i + 1, [c EXCEPT !.paths = Append(@, arg)])
         ELSE [end |-> "return", code |-> 1, config |-> c]

\* The process is started with up to MaxArgs arguments.
InitArgs ==
    /\ \E args \in Strings(ArgTokens, MaxArgs) :
          ui = [pc |-> "main", args |-> args, end |-> "none", code |-> 0,
                config |-> [paths |-> <<>>, interactive_mode |-> FALSE,
                            stay_on_filesystem |-> FALSE, max_depth |-> 0]]
    /\ config = Cfg(<<>>, FALSE, FALSE) /\ env = NoHang /\ live = {}
    /\ th = [t \in Threads |-> ThreadInit(t)]
    /\ PoolInit /\ ScannerInit

\* main() has handled its arguments: it has returned, the process was
\* terminated, or the scan begins.
MainHandleArgs ==
    /\ ui.pc = "main"
    /\ \E r \in {MainArgs(ui.args, 1, ui.config)} :
          ui' = [ui EXCEPT !.pc = "args_done", !.end = r.end, !.code = r.code,
                           !.config = r.config]
    /\ TreeSame /\ ScanIdle

NextArgs == MainHandleArgs

SpecArgs == InitArgs /\ [][NextArgs]_vars

\* The arguments from args[i] on are invalid: read from left to right, before
\* any -h, there is an option that is not known or a -d whose value is not a
\* decimal number.
RECURSIVE InvalidOption(_, _)
InvalidOption(args, i) ==
    IF i > Len(args) THEN FALSE
    ELSE LET arg == args[i] IN
         IF arg = <<"-", "h">> THEN FALSE
         ELSE IF arg = <<"-", "d">>
         THEN IF i + 1 > Len(args) THEN FALSE
              ELSE \/ \E k \in 1..Len(args[i + 1]) : args[i + 1][k] \notin DOMAIN DigitVal
                   \/ InvalidOption(args, i + 2)
         ELSE IF arg \in {<<"-", "x">>, <<"i">>} \/ arg[1] # "-"
         THEN InvalidOption(args, i + 1)
         ELSE TRUE
\* Read from left to right, the arguments from args[i] on hold no -h, and name
\* a path that does not exist (missing: one was named before args[i]).
RECURSIVE MissingPath(_, _, _)
MissingPath(args, i, missing) ==
    IF i > Len(args) THEN missing
    ELSE LET arg == args[i] IN
         IF arg = <<"-", "h">> THEN FALSE
         ELSE IF arg = <<"-", "d">> THEN MissingPath(args, i + 2, missing)
         ELSE MissingPath(args, i + 1,
                          \/ missing
                          \/ arg[1] # "-" /\ arg # <<"i">> /\ arg \notin ExistingPaths)

\* C29: argument handling ends the process in one way only, by returning from
\* main with code 1, and it does so exactly when an argument is invalid (an
\* unknown option, a malformed option value) or a root path does not exist;
\* otherwise the run goes on and the exit code is 0.
C29_ExitCodes ==
    ui.pc = "args_done" =>
        /\ ui.end # "terminate"
        /\ ui.code \in {0, 1}
        /\ ui.code = 1 <=> (InvalidOption(ui.args, 1) \/ MissingPath(ui.args, 1, FALSE))

\* ------------------------------------------------ tasks on the pool's queues
\* How often the task of entry e is on a queue, ...
TimesQueued(qs, e) ==
    Cardinality({qi \in UNION {{q} \X (1..Len(qs[q])) : q \in Workers} :
                    qs[qi[1]][qi[2]] = e})
\* ... in the hand of a worker that popped or stole it and is about to run it,
TimesHeld(thv, e) ==
    Cardinality({w \in Workers :
                    /\ thv[w].task = e
                    /\ thv[w].pc \in {"w_size", "w_unlock", "s_size", "s_unlock",
                                      "w_active"}})
\* ... and running or run.
TimesRun(thv, h, e) ==
    Cardinality({t \in Threads : e \in FrameEntries(thv[t].stack)})
        + (IF e \in h.completed THEN 1 ELSE 0)

\* C30: the task of an entry is in one place at most: on one queue, in one
\* worker's hand, running in one thread, or run; a task leaves the queues and
\* the workers' hands only by being run; and whenever a queue's mutex is free
\* its size counter is the length of its deque.  (Steps that abort the
\* process are set aside: the pool is not running then.)
C30_QueuedTaskRunsOnce ==
    /\ [](\A e \in DOMAIN entries :
            TimesQueued(queues, e) + TimesHeld(th, e) + TimesRun(th, hist, e) <= 1)
    /\ [](\A q \in Workers : qlock[q] = {} => qsize[q] = Len(queues[q]))
    /\ [][(\A t \in Threads : th'[t].pc # "aborted") =>
            \A e \in DOMAIN entries :
                TimesQueued(queues', e) + TimesHeld(th', e)
                        < TimesQueued(queues, e) + TimesHeld(th, e)
                    => TimesRun(th', hist', e) > TimesRun(th, hist, e)]_vars
\* A worker has stolen a task from the back of a queue on which another task
\* is still waiting for the queue's owner.
C30_Witness ==
    \E w \in Workers :
        /\ th[w].pc = "s_unlock" /\ th[w].task # NoEntry
        /\ queues[Victim(w, th[w].att)] # <<>>

\* ------------------------------------------- scan() and the thread schedule
\* Entry e1 comes before entry e2: under an earlier root, or under the same
\* root with the smaller path.
EarlierEntry(e1, e2) ==
    \/ e1[1] < e2[1]
    \/ e1[1] = e2[1] /\ PathRank(entries[e1].path) < PathRank(entries[e2].path)
\* Two files found below roots that are links of one inode, with dedup on.
LinksOfOneInode(f1, f2) ==
    /\ f1 # f2 /\ {f1, f2} \subseteq RegularFiles \ Range(roots)
    /\ ~config.count_hard_links
    /\ entries[f1].hard_link_count > 1
    /\ Key(f1) = Key(f2)
\* Two entries for one directory.
SameDirectory(d1, d2) ==
    /\ d1 # d2
    /\ entries[d1].is_directory /\ ~entries[d1].is_symlink
    /\ entries[d2].is_directory /\ ~entries[d2].is_symlink
    /\ Canonical(entries[d1].path, live) = Canonical(entries[d2].path, live)
    /\ Listing(entries[d1].path, live) # <<>>

\* The forest of the runs in which every inode with several links is counted
\* at the earliest of its entries and every directory that has two entries is
\* enumerated at the earlier one.
EarliestWins ==
    /\ \A f1 \in DOMAIN entries, f2 \in DOMAIN entries :
          (LinksOfOneInode(f1, f2) /\ EarlierEntry(f1, f2)) => entries[f2].size = 0
    /\ \A d1 \in DOMAIN entries, d2 \in DOMAIN entries :
          (SameDirectory(d1, d2) /\ EarlierEntry(d1, d2)) => entries[d2].children = <<>>

\* C31: the forest scan() returns does not depend on the schedule of the
\* threads: as some runs count an inode at the earliest of its links and
\* enumerate a directory at the earliest of its entries (C31_EarliestRun),
\* every run does, and so size and entry_count at every path are the same.
C31_ForestIndependentOfSchedule == ScanReturned => EarliestWins
\* A run of a tree with two links of one inode in two directories has
\* returned the forest in which the earliest entries are counted.
C31_EarliestRun ==
    /\ ScanReturned /\ EarliestWins
    /\ \E f1 \in DOMAIN entries, f2 \in DOMAIN entries : LinksOfOneInode(f1, f2)
\* A run of a root list with one root inside another has returned the forest
\* in which the earlier entry of the directory was enumerated.
C31_EarliestRoot ==
    /\ ScanReturned /\ EarliestWins
    /\ \E d1 \in DOMAIN entries, d2 \in DOMAIN entries : SameDirectory(d1, d2)

\* C32: no queue of the pool ever holds more than QUEUE_SIZE_LIMIT / workers
\* tasks, however many threads call enqueue at a time.
C32_QueueNeverOverCap == \A q \in Workers : Len(queues[q]) <= QueueCap

\* C33: after refresh_selected the refreshed directory has the size and the
\* entry_count of the new scan of it (the sum of its new children's sizes),
\* and every directory on the navigation stack, up to the root, has as size
\* the sum of the sizes of its children.
C33_RefreshKeepsSums ==
    [][(/\ KeyRefreshSelected /\ ui'.pc = "loop" /\ HasSelected
        /\ entries[Selected].is_directory /\ ~entries[Selected].is_symlink)
          => \A d \in {Selected} \cup Range(ui.navigation_stack) :
                entries'[d].size =
                    SumOver(entries'[d].children,
                            [c \in DOMAIN entries' |-> entries'[c].size])]_vars

\* ------------------------------------------------- keys and pending moves
\* C34: a non-movement key acts on the cursor position that results from all
\* the movement keys received before it, those coalesced into pending_move
\* included: a space toggles the mark of the entry that the pending moves
\* lead to.
C34_KeysInArrivalOrder ==
    [][ToggleMark =>
          \E u \in {ApplyPending(ui)} :
              u.selected_index < Len(u.current_view) =>
                  entries'[u.current_view[u.selected_index + 1]].marked
                      # entries[u.current_view[u.selected_index + 1]].marked]_vars

\* ------------------------------------------------------ the cursor's place
\* C35: after any sequence of key presses and resize events the cursor is
\* valid and visible: selected_index is below the number of entries of a view
\* that has entries, and 0 in an empty view, and it lies in the window of
\* LINES - 4 rows that starts at view_offset.
C35_CursorValidAndVisible ==
    /\ ui.size > 0 => ui.selected_index < ui.size
    /\ ui.size = 0 => ui.selected_index = 0
    /\ ui.view_offset <= ui.selected_index
    /\ ui.selected_index < ui.view_offset + (ui.LINES - 4)
\* the same for views that have entries
C35_CursorVisibleInView ==
    ui.size > 0 =>
        /\ ui.selected_index < ui.size
        /\ ui.view_offset <= ui.selected_index
        /\ ui.selected_index < ui.view_offset + (ui.LINES - 4)

\* ------------------------------------------------- the navigation stack
\* The navigation stack is not empty, the (possibly virtual) root is at its
\* bottom and the current directory on top.
StackInOrder ==
    /\ ui.navigation_stack # <<>>
    /\ ui.navigation_stack[1] = TopDir(roots)
    /\ ui.navigation_stack[Len(ui.navigation_stack)] = ui.current_dir
\* The current directory is a directory and no symlink.
CurrentIsDirectory ==
    /\ entries[ui.current_dir].is_directory
    /\ ~entries[ui.current_dir].is_symlink
\* C36: after any sequence of UI actions the navigation stack is not empty,
\* its bottom element is the (possibly virtual) root, its top element is the
\* current directory, and the current directory is a directory entry that is
\* no symlink; left at the root changes nothing.
C36_NavigationStack ==
    /\ [](ui.pc # "terminated" => StackInOrder /\ CurrentIsDirectory)
    /\ [][(ExitDirectory /\ Len(ui.navigation_stack) = 1) => UNCHANGED vars]_vars

\* ====================================================== the rows on screen
\* What the main pane shows, row by row, next to the marks of the entries.
\* The records of the renderer get four more fields: marked, the indices of
\* the marked entries of the view; elsewhere, whether an entry outside the
\* view is marked; mark_win, whether the mark pane is laid out; screen, the
\* row that was painted last for each index on screen.  (No quick view is
\* active in these sessions.)

\* draw_entry_line(i): the mark indicator and the highlight that it paints.
EntryLine(u, i) == [mark |-> i \in u.marked, highlight |-> i = u.selected_index]

\* The screen after a draw step that took the record from u0 to u1: draw_full
\* erases the window and paints the visible lines; draw_differential paints
\* the visible lines and clears the rest after a scroll, paints the old and
\* the new cursor line after a move, and returns at once otherwise.
Painted(u0, u1) ==
    IF u1.drawn.kind = "none" THEN u0.screen
    ELSE IF u1.drawn.kind = "full" \/ u0.view_offset # u0.last_view_offset
    THEN [i \in u1.drawn.lines |-> EntryLine(u1, i)]
    ELSE [i \in DOMAIN u0.screen \cup u1.drawn.lines |->
             IF i \in u1.drawn.lines THEN EntryLine(u1, i) ELSE u0.screen[i]]

\* check_mark_pane_visibility: the layout changes, with a full redraw, when
\* the mark pane has to appear or to go.
CheckMarkPaneVisibility(u) ==
    LET should_show_mark_pane == u.marked # {} \/ u.elsewhere
    IN  IF should_show_mark_pane # u.mark_win
        THEN [u EXCEPT !.mark_win = should_show_mark_pane,
                       !.needs_full_redraw = TRUE]
        ELSE u

\* A view of 1 .. MaxView entries, none marked, before the first draw.
InitRows ==
    /\ \E n \in 1..MaxView, h \in 6..MaxLines :
          ui = [pc |-> "draw", size |-> n, LINES |-> h,
                selected_index |-> 0, view_offset |-> 0,
                last_selected_index |-> SIZE_MAX, last_view_offset |-> SIZE_MAX,
                needs_full_redraw |-> TRUE,
                cause |-> "start", drawn |-> [kind |-> "none", lines |-> {}],
                marked |-> {}, elsewhere |-> FALSE, mark_win |-> FALSE,
                screen |-> << >>]
    /\ config = Cfg(<<>>, FALSE, FALSE) /\ env = NoHang /\ live = {}
    /\ th = [t \in Threads |-> ThreadInit(t)]
    /\ PoolInit /\ ScannerInit

\* run(), top of the loop, with what it leaves on screen.
RowsDraw ==
    /\ ui.pc = "draw"
    /\ \E u1 \in {IF ui.needs_full_redraw
                  THEN [DrawFull(ui) EXCEPT !.needs_full_redraw = FALSE]
                  ELSE DrawDifferential(ui)} :
          ui' = [u1 EXCEPT !.pc = "getch", !.screen = Painted(ui, u1)]
    /\ TreeSame /\ ScanIdle

\* run(), KEY_UP or KEY_DOWN with no move pending.
RowsMove ==
    /\ ui.pc = "getch"
    /\ \E ch \in {"KEY_UP", "KEY_DOWN"} :
          ui' = [(IF ch = "KEY_UP" THEN MoveUp(ui) ELSE MoveDown(ui))
                    EXCEPT !.pc = "draw", !.cause = "move"]
    /\ TreeSame /\ ScanIdle

\* handle_key(' '): toggle_mark, check_mark_pane_visibility.
RowsToggleMark ==
    /\ ui.pc = "getch"
    /\ ui' = [CheckMarkPaneVisibility(
                 IF ui.selected_index < ui.size
                 THEN [ui EXCEPT !.marked =
                          IF ui.selected_index \in @ THEN @ \ {ui.selected_index}
                          ELSE @ \cup {ui.selected_index}]
                 ELSE ui)
                EXCEPT !.pc = "draw", !.cause = "mark"]
    /\ TreeSame /\ ScanIdle

\* handle_key('d') when no entry of the view is marked: the selected entry is
\* marked, navigate_down, check_mark_pane_visibility.
RowsMarkAndAdvance ==
    /\ ui.pc = "getch"
    /\ ui.marked = {}
    /\ ui.selected_index < ui.size
    /\ ui' = [CheckMarkPaneVisibility(
                 MoveDown([ui EXCEPT !.marked = {ui.selected_index}]))
                EXCEPT !.pc = "draw", !.cause = "mark"]
    /\ TreeSame /\ ScanIdle

\* enter_directory into a directory of n entries, none of them marked: the
\* marks of the view that is left are marks outside the view.
RowsEnterDirectory ==
    /\ ui.pc = "getch"
    /\ ui.selected_index < ui.size
    /\ \E n \in 1..MaxView :
          ui' = [ui EXCEPT !.pc = "draw", !.size = n,
                           !.selected_index = 0, !.view_offset = 0,
                           !.needs_full_redraw = TRUE, !.cause = "directory",
                           !.elsewhere = @ \/ ui.marked # {},
                           !.marked = {}]
    /\ TreeSame /\ ScanIdle

NextRows ==
    \/ RowsDraw
    \/ RowsMove
    \/ RowsToggleMark
    \/ RowsMarkAndAdvance
    \/ RowsEnterDirectory

SpecRows == InitRows /\ [][NextRows]_vars

\* C37: after the draw step that follows a handled key every visible row of
\* the main pane shows the state of its entry: its mark indicator is the
\* entry's marked flag and its highlight says whether it is the selected row.
C37_RowsShowEntries ==
    ui.pc = "getch" =>
        \A i \in VisibleLines(ui) :
            /\ i \in DOMAIN ui.screen
            /\ ui.screen[i] = EntryLine(ui, i)

\* ============================================ the ThreadPool of dua.cpp
\* The pool with one queue: `tasks` under queue_mutex, the condition variable
\* `condition` for the workers and `finished` for enqueue and wait_all.  A
\* scan of a tree of directories: the main thread runs scan_directory_impl
\* on the root and then wait_all; every task runs scan_directory_impl on one
\* directory and enqueues a task for each of its subdirectories.

\* Stand-in for QUEUE_SIZE_LIMIT of dua.cpp (10000 in the source).
PoolQueueLimit == 2
\* Subdirectories of a directory, and the depth of the tree, at most.
MaxFanout == 2
MaxDepth == 2

\* The subdirectories of directory d (the path from the root, as numbers) in
\* the tree whose directories have f subdirectories each.
Subdirectories(d, f) ==
    IF Len(d) < MaxDepth THEN [i \in 1..f |-> Append(d, i)] ELSE <<>>

\* The pool is constructed, its workers are at the top of their loops, and the
\* main thread starts scan_directory_impl on the root.
InitTp ==
    /\ \E f \in 1..MaxFanout :
          ui = [fanout |-> f,
                pc |-> [t \in Threads |-> IF t = MainThread THEN "scan" ELSE "w_lock"],
                todo |-> [t \in Threads |->
                             IF t = MainThread THEN Subdirectories(<<>>, f) ELSE <<>>],
                tasks |-> <<>>,
                queued_tasks |-> 0,
                active_tasks |-> 0,
                queue_mutex |-> {},
                condition |-> {},
                finished |-> {}]
    /\ config = Cfg(<<>>, FALSE, FALSE) /\ env = NoHang /\ live = {}
    /\ th = [t \in Threads |-> ThreadInit(t)]
    /\ PoolInit /\ ScannerInit

\* Where a thread goes on when its wait on a condition variable ends: it
\* takes queue_mutex again and evaluates the predicate of the wait.
AfterWait(p) ==
    CASE p = "w_wait" -> "w_lock"
      [] p = "e_wait" -> "e_lock"
      [] p = "wa_wait" -> "wa_lock"
      [] OTHER -> p

\* notify on a condition variable for the threads in woken.
Woken(pcs, woken) ==
    [t \in Threads |-> IF t \in woken THEN AfterWait(pcs[t]) ELSE pcs[t]]

\* The loop of a worker: under queue_mutex, condition.wait until a task is
\* queued; the task is taken, queued_tasks--, active_tasks++; the task runs
\* without the mutex; then active_tasks-- and finished.notify_all(), both
\* without the mutex.
TpWorker(w) ==
    /\ w \in Workers
    /\ \/ /\ ui.pc[w] = "w_lock"
          /\ ui.queue_mutex = {}
          /\ ui' = [ui EXCEPT !.queue_mutex = {w}, !.pc[w] = "w_check"]
       \/ /\ ui.pc[w] = "w_check"
          /\ ui' = IF ui.tasks # <<>>
                   THEN [ui EXCEPT !.todo[w] = Subdirectories(Head(ui.tasks), ui.fanout),
                                   !.tasks = Tail(@),
                                   !.queued_tasks = @ - 1,
                                   !.active_tasks = @ + 1,
                                   !.queue_mutex = {},
                                   !.pc[w] = "scan"]
                   ELSE [ui EXCEPT !.pc[w] = "w_block"]
       \/ /\ ui.pc[w] = "w_block"
          /\ ui' = [ui EXCEPT !.queue_mutex = {}, !.condition = @ \cup {w},
                              !.pc[w] = "w_wait"]
       \/ /\ ui.pc[w] = "w_dec"
          /\ ui' = [ui EXCEPT !.active_tasks = @ - 1, !.pc[w] = "w_notify"]
       \/ /\ ui.pc[w] = "w_notify"
          /\ ui' = [ui EXCEPT !.finished = {},
                              !.pc = [Woken(@, ui.finished) EXCEPT ![w] = "w_lock"]]
    /\ TreeSame /\ ScanIdle

\* scan_directory_impl in thread t: the next subdirectory is handed to
\* enqueue; after the last one the function returns, the main thread to its
\* wait_all, a worker to the end of its task.
TpScanDirectory(t) ==
    /\ ui.pc[t] = "scan"
    /\ ui' = [ui EXCEPT !.pc[t] = IF ui.todo[t] # <<>> THEN "e_lock"
                                  ELSE IF t = MainThread THEN "wa_lock" ELSE "w_dec"]
    /\ TreeSame /\ ScanIdle

\* enqueue in thread t: under queue_mutex, finished.wait until
\* queued_tasks < QUEUE_SIZE_LIMIT; the task is queued; condition.notify_one()
\* without the mutex.
TpEnqueue(t) ==
    /\ \/ /\ ui.pc[t] = "e_lock"
          /\ ui.queue_mutex = {}
          /\ ui' = [ui EXCEPT !.queue_mutex = {t}, !.pc[t] = "e_check"]
       \/ /\ ui.pc[t] = "e_check"
          /\ ui' = IF ui.queued_tasks < PoolQueueLimit
                   THEN [ui EXCEPT !.tasks = Append(@, Head(ui.todo[t])),
                                   !.todo[t] = Tail(@),
                                   !.queued_tasks = @ + 1,
                                   !.queue_mutex = {},
                                   !.pc[t] = "e_notify"]
                   ELSE [ui EXCEPT !.pc[t] = "e_block"]
       \/ /\ ui.pc[t] = "e_block"
          /\ ui' = [ui EXCEPT !.queue_mutex = {}, !.finished = @ \cup {t},
                              !.pc[t] = "e_wait"]
       \/ /\ ui.pc[t] = "e_notify"
          /\ IF ui.condition = {}
             THEN ui' = [ui EXCEPT !.pc[t] = "scan"]
             ELSE \E v \in ui.condition :
                     ui' = [ui EXCEPT !.condition = @ \ {v},
                                      !.pc = [Woken(@, {v}) EXCEPT ![t] = "scan"]]
    /\ TreeSame /\ ScanIdle

\* wait_all in the main thread: under queue_mutex, finished.wait until the
\* queue is empty and no task is active.
TpWaitAll(t) ==
    /\ t = MainThread
    /\ \/ /\ ui.pc[t] = "wa_lock"
          /\ ui.queue_mutex = {}
          /\ ui' = [ui EXCEPT !.queue_mutex = {t}, !.pc[t] = "wa_check"]
       \/ /\ ui.pc[t] = "wa_check"
          /\ ui' = IF ui.tasks = <<>> /\ ui.active_tasks = 0
                   THEN [ui EXCEPT !.queue_mutex = {}, !.pc[t] = "returned"]
                   ELSE [ui EXCEPT !.pc[t] = "wa_block"]
       \/ /\ ui.pc[t] = "wa_block"
          /\ ui' = [ui EXCEPT !.queue_mutex = {}, !.finished = @ \cup {t},
                              !.pc[t] = "wa_wait"]
    /\ TreeSame /\ ScanIdle

\* A wait on a condition variable may end without a notify.
TpSpuriousWakeup(t) ==
    /\ t \in ui.condition \cup ui.finished
    /\ ui' = [ui EXCEPT !.condition = @ \ {t}, !.finished = @ \ {t},
                        !.pc = Woken(@, {t})]
    /\ TreeSame /\ ScanIdle

\* What thread t does when it is scheduled.
TpThread(t) ==
    \/ TpWorker(t)
    \/ TpScanDirectory(t)
    \/ TpEnqueue(t)
    \/ TpWaitAll(t)

NextTp ==
    \/ \E t \in Threads : TpWorker(t)
    \/ \E t \in Threads : TpScanDirectory(t)
    \/ \E t \in Threads : TpEnqueue(t)
    \/ \E t \in Threads : TpWaitAll(t)
    \/ \E t \in Threads : TpSpuriousWakeup(t)

\* Every thread that can go on, always or again and again, does go on; no
\* wait ends without a notify unless it happens to.
SpecTp == InitTp /\ [][NextTp]_vars /\ \A t \in Threads : SF_vars(TpThread(t))

InEnqueue(t) == ui.pc[t] \in {"e_lock", "e_check", "e_block", "e_wait"}

\* C38: enqueue called from inside a running task always returns: a scan in
\* which the tasks of the workers submit tasks for subdirectories does not
\* deadlock when the queue has reached QUEUE_SIZE_LIMIT.
C38_EnqueueInTaskReturns ==
    \A w \in Workers : InEnqueue(w) ~> ~InEnqueue(w)

\* C39: wait_all returns, sooner or later, once the queue is empty and no
\* task is active: the end of the last task is not missed by a caller that
\* is about to block in wait_all.
C39_WaitAllReturns ==
    (/\ ui.pc[MainThread] \in {"wa_lock", "wa_check", "wa_block", "wa_wait"}
     /\ ui.tasks = <<>>
     /\ ui.active_tasks = 0) ~> (ui.pc[MainThread] = "returned")

====
